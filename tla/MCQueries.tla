------------------------------ MODULE MCQueries ------------------------------
(* Two calls of any methods of a channel, and one message that answers     *)
(* neither of them.                                                        *)
EXTENDS Queries
=============================================================================
