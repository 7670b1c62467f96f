------------------------------ MODULE OpenTimes ------------------------------
(***************************************************************************)
(* mixins/management_mixin.py get_all_open_time(): three threads fill one  *)
(* table of what can be traded, from the initialization data, from the     *)
(* list of digital underlyings, and from the instruments of each type      *)
(* (stable_api.py get_instruments(), which falls back on the data of the   *)
(* initialization).  Whether an asset is open is in each source a Boolean; *)
(* blitz, filled like turbo, is left out.                                  *)
(***************************************************************************)
EXTENDS Integers, Sequences, FiniteSets, SequencesExt

CONSTANTS
  Assets,      \* in some order: a sequence
  Sources      \* what the sources say: a set of records, see SourcesAssumption

OptionKinds  == {"binary", "turbo"}
Words  == {"none", "open", "shut"}
Named  == ToSet(Assets)

\* v2, v1: the two initialization messages; digital: the underlying list; ws: the
\* instruments of a type; the type of each asset is the same in all of them.
ASSUME SourcesAssumption ==
  /\ Assets \in Seq(Named)
  /\ Sources \subseteq [v2 : [OptionKinds -> [Named -> Words]], v1 : [OptionKinds -> [Named -> Words]],
                        digital : [Named -> Words], ws : [Named -> Words]]

VARIABLES
  source,    \* what the sources say
  table,     \* OPEN_TIME of binary, turbo, digital and of the instruments: "ins"
  entry,     \* __get_binary_open: how many of its entries are written
  digital,   \* where __get_digital_open is
  other,     \* where __get_other_open is
  joined     \* get_all_open_time() has returned

openTimeVars == <<source, table, entry, digital, other, joined>>

NoWord == [a \in Named |-> "none"]

OpenTimeInit ==
  /\ source \in Sources
  /\ table = [k \in OptionKinds \cup {"digital", "ins"} |-> NoWord]
  /\ entry = 0
  /\ digital = "asks" /\ other = "asks"
  /\ joined = FALSE

Says(word) == word # "none"
StandsOpen(word) == word = "open"

-----------------------------------------------------------------------------
(* __get_binary_open *)

\* Its writes in order: all of the second version's message, then all of the first's.
Entries ==
  LET of(v, kind) == [i \in DOMAIN Assets |-> [v |-> v, kind |-> kind, asset |-> Assets[i]]]
  IN of("v2", "binary") \o of("v2", "turbo") \o of("v1", "binary") \o of("v1", "turbo")

Word(e) == source[e.v][e.kind][e.asset]

WritesEntry ==
  /\ entry < Len(Entries)
  /\ LET e == Entries[entry + 1]
     IN table' = IF Says(Word(e)) THEN [table EXCEPT ![e.kind][e.asset] = Word(e)] ELSE table
  /\ entry' = entry + 1
  /\ UNCHANGED <<source, digital, other, joined>>

-----------------------------------------------------------------------------
(* __get_digital_open *)

ListsAndMirrors ==   \* variant: the mirror whatever the list says
  /\ digital = "asks"
  /\ table' = [table EXCEPT !["digital"] = source.digital]
  /\ digital' = "binary"
  /\ UNCHANGED <<source, entry, other, joined>>

\* The list is asked for up to three times; of the instruments of type digital-option,
\* asked for when it is empty, no more is modelled than that they may say the same.
ListsDigital ==
  /\ digital = "asks"
  /\ table' = [table EXCEPT !["digital"] = source.digital]
  /\ digital' = IF \E a \in Named : StandsOpen(source.digital[a]) THEN "done" ELSE "binary"
  /\ UNCHANGED <<source, entry, other, joined>>

Mirrored(kind, some) ==
  [a \in Named |-> IF a \in some /\ StandsOpen(table[kind][a]) THEN "open" ELSE table["digital"][a]]

\* Nothing is open: what the other thread has found open so far is copied.
Mirrors ==
  /\ digital \in OptionKinds
  /\ table' = [table EXCEPT !["digital"] = Mirrored(digital, Named)]
  /\ digital' = IF digital = "binary" THEN "turbo" ELSE "done"
  /\ UNCHANGED <<source, entry, other, joined>>

\* An asset the other thread adds while it is copied: RuntimeError, the thread is over.
DiesMirroring ==
  /\ digital \in OptionKinds
  /\ \E a \in Named : Says(table[digital][a])
  /\ \E i \in entry + 1 .. Len(Entries) :
       LET e == Entries[i]
       IN e.kind = digital /\ Says(Word(e)) /\ ~Says(table[digital][e.asset])
  /\ digital' = "dead"
  /\ \E some \in SUBSET Named : table' = [table EXCEPT !["digital"] = Mirrored(digital, some)]
  /\ UNCHANGED <<source, entry, other, joined>>

-----------------------------------------------------------------------------
(* __get_other_open and get_instruments() *)

FirstThatSays(a, b, c) == IF a # NoWord THEN a ELSE IF b # NoWord THEN b ELSE c

\* The actives of both messages' binary and turbo options, the first mention of each.
InitInstruments(v) ==
  [a \in Named |-> IF Says(source[v]["binary"][a]) THEN source[v]["binary"][a]
                                                   ELSE source[v]["turbo"][a]]

\* The answer of the server, else the cached second message, else the first.
get_instruments == FirstThatSays(source.ws, InitInstruments("v2"), InitInstruments("v1"))

ListsOther ==
  /\ other = "asks"
  /\ table' = [table EXCEPT !["ins"] = get_instruments]
  /\ other' = "done"
  /\ UNCHANGED <<source, entry, digital, joined>>

-----------------------------------------------------------------------------

\* Threads end when their function does, or an exception leaves it.
Joins ==
  /\ ~joined
  /\ entry = Len(Entries) /\ digital \in {"done", "dead"} /\ other = "done"
  /\ joined' = TRUE
  /\ UNCHANGED <<source, table, entry, digital, other>>

OpenTimeNext == WritesEntry \/ ListsDigital \/ Mirrors \/ DiesMirroring \/ ListsOther \/ Joins

OpenTimeSpec == OpenTimeInit /\ [][OpenTimeNext]_openTimeVars

-----------------------------------------------------------------------------
(* Properties *)

OpenTimeTypeOK ==
  /\ source \in Sources
  /\ table \in [OptionKinds \cup {"digital", "ins"} -> [Named -> Words]]
  /\ entry \in 0 .. Len(Entries)
  /\ digital \in OptionKinds \cup {"asks", "done", "dead"} /\ other \in {"asks", "done"}

\* Whatever the threads' order, the table that is returned has for a binary or turbo
\* option the word of the first message, else that of the second.
LastWordStays ==
  joined => \A k \in OptionKinds, a \in Named :
    table[k][a] = IF Says(source.v1[k][a]) THEN source.v1[k][a] ELSE source.v2[k][a]

\* An asset is open as a digital option on somebody's word: that of the underlying
\* list, or, when the list has nothing open, of one of the messages about the binary
\* ones; and what the list has open is never covered up by the mirror.
DigitalIsBacked ==
  \A a \in Named :
    /\ StandsOpen(table["digital"][a]) =>
         \/ StandsOpen(source.digital[a])
         \/ /\ \A b \in Named : ~StandsOpen(source.digital[b])
            /\ \E k \in OptionKinds : StandsOpen(source.v2[k][a]) \/ StandsOpen(source.v1[k][a])
    /\ joined /\ Says(source.digital[a]) => Says(table["digital"][a])
         /\ (StandsOpen(source.digital[a]) => StandsOpen(table["digital"][a]))
    /\ StandsOpen(source.digital[a]) /\ joined => table["digital"] = source.digital

\* Instruments are missing only when no source has any.
InstrumentsFound ==
  joined /\ table["ins"] = NoWord =>
    /\ source.ws = NoWord
    /\ \A k \in OptionKinds : source.v2[k] = NoWord /\ source.v1[k] = NoWord

\* The table of get_all_open_time() is what the sources say, whatever the order of
\* its three threads.
TableIsBacked == LastWordStays /\ DigitalIsBacked /\ InstrumentsFound
=============================================================================
