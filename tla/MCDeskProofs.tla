----------------------------- MODULE MCDeskProofs -----------------------------
(***************************************************************************)
(* The components that MCDesk puts side by side: what it runs of each is   *)
(* that component's own specification, so that what is proved of each holds*)
(* of them all, for all values of the constants and every set of Parts.    *)
(***************************************************************************)
EXTENDS MCDesk, DeskProofs, FiguresProofs

\* Each component starts as its own specification says.
InitOfEach ==
  /\ SubInit /\ CandleInit /\ RecordInit /\ IdempotencyInit /\ RotationInit /\ AsyncInit
  /\ MonitorInit /\ CloseAllInit /\ OpenTimeInit /\ BreakerInit /\ BucketInit /\ SettlementInit
  /\ StakeInit /\ PatternsInit /\ VotesInit /\ FramesInit /\ BacktestInit /\ ExpirationInit
  /\ MultiInit /\ ReportInit /\ ScannerInit

\* Each component takes a step of its own specification, or rests.
StepOfEach ==
  /\ [SubNext]_subVars /\ [CandleNext]_candleVars /\ [RecordNext]_recordVars
  /\ [IdempotencyNext]_registryVars /\ [RotationNext]_rotationVars /\ [AsyncNext]_asyncVars
  /\ [MonitorNext]_monitorVars /\ [CloseAllNext]_closeAllVars /\ [OpenTimeNext]_openTimeVars
  /\ [BreakerNext]_breakerVars /\ [BucketNext]_bucketVars /\ [SettlementNext]_settlementVars
  /\ [StakeNext]_stakeVars /\ [PatternsNext]_window /\ [VotesNext]_voteVars
  /\ [FramesNext]_snapshot /\ [BacktestNext]_backtestVars /\ [ExpirationNext]_expirationVars
  /\ [MultiNext]_multiVars /\ [ReportNext]_reportVars /\ [ScannerNext]_scannerVars

\* What the specification of each component allows.
SpecOfEach ==
  /\ SubSpec /\ CandleSpec /\ RecordSpec /\ IdempotencySpec /\ RotationSpec /\ AsyncSpec
  /\ MonitorSpec /\ CloseAllSpec /\ OpenTimeSpec /\ BreakerSpec /\ BucketSpec /\ SettlementSpec
  /\ StakeSpec /\ PatternsSpec /\ VotesSpec /\ FramesSpec /\ BacktestSpec /\ ExpirationSpec
  /\ MultiSpec /\ ReportSpec /\ ScannerSpec

\* The components start side by side.
LEMMA DeskStartsEach == DeskInit => InitOfEach
BY DEF DeskInit, InitOfEach

\* A step of one of the parts leaves the others as they are.
LEMMA DeskStepsEach == [DeskNext]_deskVars => StepOfEach
<1> SUFFICES ASSUME [DeskNext]_deskVars PROVE StepOfEach
  OBVIOUS
<1>1. [SubNext]_subVars
  BY DEF DeskNext, Only, deskVars
<1>2. [CandleNext]_candleVars
  BY DEF DeskNext, Only, deskVars
<1>3. [RecordNext]_recordVars
  BY DEF DeskNext, Only, deskVars
<1>4. [IdempotencyNext]_registryVars
  BY DEF DeskNext, Only, deskVars
<1>5. [RotationNext]_rotationVars
  BY DEF DeskNext, Only, deskVars
<1>6. [AsyncNext]_asyncVars
  BY DEF DeskNext, Only, deskVars
<1>7. [MonitorNext]_monitorVars
  BY DEF DeskNext, Only, deskVars
<1>8. [CloseAllNext]_closeAllVars
  BY DEF DeskNext, Only, deskVars
<1>9. [OpenTimeNext]_openTimeVars
  BY DEF DeskNext, Only, deskVars
<1>10. [BreakerNext]_breakerVars
  BY DEF DeskNext, Only, deskVars
<1>11. [BucketNext]_bucketVars
  BY DEF DeskNext, Only, deskVars
<1>12. [SettlementNext]_settlementVars
  BY DEF DeskNext, Only, deskVars
<1>13. [StakeNext]_stakeVars
  BY DEF DeskNext, Only, deskVars
<1>14. [PatternsNext]_window
  BY DEF DeskNext, Only, deskVars
<1>15. [VotesNext]_voteVars
  BY DEF DeskNext, Only, deskVars
<1>16. [FramesNext]_snapshot
  BY DEF DeskNext, Only, deskVars
<1>17. [BacktestNext]_backtestVars
  BY DEF DeskNext, Only, deskVars
<1>18. [ExpirationNext]_expirationVars
  BY DEF DeskNext, Only, deskVars
<1>19. [MultiNext]_multiVars
  BY DEF DeskNext, Only, deskVars
<1>20. [ReportNext]_reportVars
  BY DEF DeskNext, Only, deskVars
<1>21. [ScannerNext]_scannerVars
  BY DEF DeskNext, Only, deskVars
<1> QED
  BY <1>1, <1>2, <1>3, <1>4, <1>5, <1>6, <1>7, <1>8, <1>9, <1>10, <1>11, <1>12,
     <1>13, <1>14, <1>15, <1>16, <1>17, <1>18, <1>19, <1>20, <1>21 DEF StepOfEach

\* Whatever component a behaviour of MCDesk is one of, it is a behaviour of each: a
\* run of MCDesk checks the specifications of the components, and no others.
THEOREM DeskRunsEach == DeskSpec => SpecOfEach
<1>1. DeskSpec => SubSpec
  <2>1. DeskInit => SubInit
    BY DeskStartsEach DEF InitOfEach
  <2>2. [DeskNext]_deskVars => [SubNext]_subVars
    BY DeskStepsEach DEF StepOfEach
  <2> QED
    BY <2>1, <2>2, PTL DEF DeskSpec, SubSpec
<1>2. DeskSpec => CandleSpec
  <2>1. DeskInit => CandleInit
    BY DeskStartsEach DEF InitOfEach
  <2>2. [DeskNext]_deskVars => [CandleNext]_candleVars
    BY DeskStepsEach DEF StepOfEach
  <2> QED
    BY <2>1, <2>2, PTL DEF DeskSpec, CandleSpec
<1>3. DeskSpec => RecordSpec
  <2>1. DeskInit => RecordInit
    BY DeskStartsEach DEF InitOfEach
  <2>2. [DeskNext]_deskVars => [RecordNext]_recordVars
    BY DeskStepsEach DEF StepOfEach
  <2> QED
    BY <2>1, <2>2, PTL DEF DeskSpec, RecordSpec
<1>4. DeskSpec => IdempotencySpec
  <2>1. DeskInit => IdempotencyInit
    BY DeskStartsEach DEF InitOfEach
  <2>2. [DeskNext]_deskVars => [IdempotencyNext]_registryVars
    BY DeskStepsEach DEF StepOfEach
  <2> QED
    BY <2>1, <2>2, PTL DEF DeskSpec, IdempotencySpec
<1>5. DeskSpec => RotationSpec
  <2>1. DeskInit => RotationInit
    BY DeskStartsEach DEF InitOfEach
  <2>2. [DeskNext]_deskVars => [RotationNext]_rotationVars
    BY DeskStepsEach DEF StepOfEach
  <2> QED
    BY <2>1, <2>2, PTL DEF DeskSpec, RotationSpec
<1>6. DeskSpec => AsyncSpec
  <2>1. DeskInit => AsyncInit
    BY DeskStartsEach DEF InitOfEach
  <2>2. [DeskNext]_deskVars => [AsyncNext]_asyncVars
    BY DeskStepsEach DEF StepOfEach
  <2> QED
    BY <2>1, <2>2, PTL DEF DeskSpec, AsyncSpec
<1>7. DeskSpec => MonitorSpec
  <2>1. DeskInit => MonitorInit
    BY DeskStartsEach DEF InitOfEach
  <2>2. [DeskNext]_deskVars => [MonitorNext]_monitorVars
    BY DeskStepsEach DEF StepOfEach
  <2> QED
    BY <2>1, <2>2, PTL DEF DeskSpec, MonitorSpec
<1>8. DeskSpec => CloseAllSpec
  <2>1. DeskInit => CloseAllInit
    BY DeskStartsEach DEF InitOfEach
  <2>2. [DeskNext]_deskVars => [CloseAllNext]_closeAllVars
    BY DeskStepsEach DEF StepOfEach
  <2> QED
    BY <2>1, <2>2, PTL DEF DeskSpec, CloseAllSpec
<1>9. DeskSpec => OpenTimeSpec
  <2>1. DeskInit => OpenTimeInit
    BY DeskStartsEach DEF InitOfEach
  <2>2. [DeskNext]_deskVars => [OpenTimeNext]_openTimeVars
    BY DeskStepsEach DEF StepOfEach
  <2> QED
    BY <2>1, <2>2, PTL DEF DeskSpec, OpenTimeSpec
<1>10. DeskSpec => BreakerSpec
  <2>1. DeskInit => BreakerInit
    BY DeskStartsEach DEF InitOfEach
  <2>2. [DeskNext]_deskVars => [BreakerNext]_breakerVars
    BY DeskStepsEach DEF StepOfEach
  <2> QED
    BY <2>1, <2>2, PTL DEF DeskSpec, BreakerSpec
<1>11. DeskSpec => BucketSpec
  <2>1. DeskInit => BucketInit
    BY DeskStartsEach DEF InitOfEach
  <2>2. [DeskNext]_deskVars => [BucketNext]_bucketVars
    BY DeskStepsEach DEF StepOfEach
  <2> QED
    BY <2>1, <2>2, PTL DEF DeskSpec, BucketSpec
<1>12. DeskSpec => SettlementSpec
  <2>1. DeskInit => SettlementInit
    BY DeskStartsEach DEF InitOfEach
  <2>2. [DeskNext]_deskVars => [SettlementNext]_settlementVars
    BY DeskStepsEach DEF StepOfEach
  <2> QED
    BY <2>1, <2>2, PTL DEF DeskSpec, SettlementSpec
<1>13. DeskSpec => StakeSpec
  <2>1. DeskInit => StakeInit
    BY DeskStartsEach DEF InitOfEach
  <2>2. [DeskNext]_deskVars => [StakeNext]_stakeVars
    BY DeskStepsEach DEF StepOfEach
  <2> QED
    BY <2>1, <2>2, PTL DEF DeskSpec, StakeSpec
<1>14. DeskSpec => PatternsSpec
  <2>1. DeskInit => PatternsInit
    BY DeskStartsEach DEF InitOfEach
  <2>2. [DeskNext]_deskVars => [PatternsNext]_window
    BY DeskStepsEach DEF StepOfEach
  <2> QED
    BY <2>1, <2>2, PTL DEF DeskSpec, PatternsSpec
<1>15. DeskSpec => VotesSpec
  <2>1. DeskInit => VotesInit
    BY DeskStartsEach DEF InitOfEach
  <2>2. [DeskNext]_deskVars => [VotesNext]_voteVars
    BY DeskStepsEach DEF StepOfEach
  <2> QED
    BY <2>1, <2>2, PTL DEF DeskSpec, VotesSpec
<1>16. DeskSpec => FramesSpec
  <2>1. DeskInit => FramesInit
    BY DeskStartsEach DEF InitOfEach
  <2>2. [DeskNext]_deskVars => [FramesNext]_snapshot
    BY DeskStepsEach DEF StepOfEach
  <2> QED
    BY <2>1, <2>2, PTL DEF DeskSpec, FramesSpec
<1>17. DeskSpec => BacktestSpec
  <2>1. DeskInit => BacktestInit
    BY DeskStartsEach DEF InitOfEach
  <2>2. [DeskNext]_deskVars => [BacktestNext]_backtestVars
    BY DeskStepsEach DEF StepOfEach
  <2> QED
    BY <2>1, <2>2, PTL DEF DeskSpec, BacktestSpec
<1>18. DeskSpec => ExpirationSpec
  <2>1. DeskInit => ExpirationInit
    BY DeskStartsEach DEF InitOfEach
  <2>2. [DeskNext]_deskVars => [ExpirationNext]_expirationVars
    BY DeskStepsEach DEF StepOfEach
  <2> QED
    BY <2>1, <2>2, PTL DEF DeskSpec, ExpirationSpec
<1>19. DeskSpec => MultiSpec
  <2>1. DeskInit => MultiInit
    BY DeskStartsEach DEF InitOfEach
  <2>2. [DeskNext]_deskVars => [MultiNext]_multiVars
    BY DeskStepsEach DEF StepOfEach
  <2> QED
    BY <2>1, <2>2, PTL DEF DeskSpec, MultiSpec
<1>20. DeskSpec => ReportSpec
  <2>1. DeskInit => ReportInit
    BY DeskStartsEach DEF InitOfEach
  <2>2. [DeskNext]_deskVars => [ReportNext]_reportVars
    BY DeskStepsEach DEF StepOfEach
  <2> QED
    BY <2>1, <2>2, PTL DEF DeskSpec, ReportSpec
<1>21. DeskSpec => ScannerSpec
  <2>1. DeskInit => ScannerInit
    BY DeskStartsEach DEF InitOfEach
  <2>2. [DeskNext]_deskVars => [ScannerNext]_scannerVars
    BY DeskStepsEach DEF StepOfEach
  <2> QED
    BY <2>1, <2>2, PTL DEF DeskSpec, ScannerSpec
<1> QED
  BY <1>1, <1>2, <1>3, <1>4, <1>5, <1>6, <1>7, <1>8, <1>9, <1>10, <1>11, <1>12,
     <1>13, <1>14, <1>15, <1>16, <1>17, <1>18, <1>19, <1>20, <1>21 DEF SpecOfEach

\* MCDesk stays with the part it chose.
LEMMA DeskPartStays == DeskSpec => [](part \in Parts)
<1>1. DeskInit => part \in Parts
  BY DEF DeskInit
<1>2. part \in Parts /\ [DeskNext]_deskVars => (part \in Parts)'
  BY DEF DeskNext, Only, deskVars
<1> QED
  BY <1>1, <1>2, PTL DEF DeskSpec

\* Every component keeps its types, whichever of them moves.
THEOREM DeskTypesStay == DeskSpec => []DeskTypeOK
<1>1. DeskSpec => []SubTypeOK
  <2>1. DeskSpec => SubSpec
    BY DeskRunsEach DEF SpecOfEach
  <2> QED
    BY <2>1, LastRequestAlwaysWins, PTL
<1>2. DeskSpec => []CandleTypeOK
  <2>1. DeskSpec => CandleSpec
    BY DeskRunsEach DEF SpecOfEach
  <2> QED
    BY <2>1, CandlesStayRecent, PTL
<1>3. DeskSpec => []RecordTypeOK
  <2>1. DeskSpec => RecordSpec
    BY DeskRunsEach DEF SpecOfEach
  <2> QED
    BY <2>1, RecordedStaysOnce, PTL
<1>4. DeskSpec => []IdempotencyTypeOK
  <2>1. DeskSpec => IdempotencySpec
    BY DeskRunsEach DEF SpecOfEach
  <2> QED
    BY <2>1, ConfirmedStaysFound, PTL
<1>5. DeskSpec => []RotationTypeOK
  <2>1. DeskSpec => RotationSpec
    BY DeskRunsEach DEF SpecOfEach
  <2> QED
    BY <2>1, RotationsStayBounded, PTL
<1>6. DeskSpec => []AsyncTypeOK
  <2>1. DeskSpec => AsyncSpec
    BY DeskRunsEach DEF SpecOfEach
  <2> QED
    BY <2>1, PoolOutlivesConnection, PTL
<1>7. DeskSpec => []MonitorTypeOK
  <2>1. DeskSpec => MonitorSpec
    BY DeskRunsEach DEF SpecOfEach
  <2> QED
    BY <2>1, MonitorTypeCorrect, PTL
<1>8. DeskSpec => []CloseAllTypeOK
  <2>1. DeskSpec => CloseAllSpec
    BY DeskRunsEach DEF SpecOfEach
  <2> QED
    BY <2>1, ReportStaysBacked, PTL
<1>9. DeskSpec => []OpenTimeTypeOK
  <2>1. DeskSpec => OpenTimeSpec
    BY DeskRunsEach DEF SpecOfEach
  <2> QED
    BY <2>1, TableStaysBacked, PTL
<1>10. DeskSpec => []BreakerTypeOK
  <2>1. DeskSpec => BreakerSpec
    BY DeskRunsEach DEF SpecOfEach
  <2> QED
    BY <2>1, BreakerTypeCorrect, PTL
<1>11. DeskSpec => []BucketTypeOK
  <2>1. DeskSpec => BucketSpec
    BY DeskRunsEach DEF SpecOfEach
  <2> QED
    BY <2>1, BucketTypeCorrect, PTL
<1>12. DeskSpec => []SettlementTypeOK
  <2>1. DeskSpec => SettlementSpec
    BY DeskRunsEach DEF SpecOfEach
  <2> QED
    BY <2>1, SettlementTypeCorrect, PTL
<1>13. DeskSpec => []StakeTypeOK
  <2>1. DeskSpec => StakeSpec
    BY DeskRunsEach DEF SpecOfEach
  <2> QED
    BY <2>1, StakesStayBounded, PTL
<1>14. DeskSpec => []BacktestTypeOK
  <2>1. DeskSpec => BacktestSpec
    BY DeskRunsEach DEF SpecOfEach
  <2> QED
    BY <2>1, RunStaysAccounted, PTL
<1>15. DeskSpec => []ExpirationTypeOK
  <2>1. DeskSpec => ExpirationSpec
    BY DeskRunsEach DEF SpecOfEach
  <2> QED
    BY <2>1, ExpiryIsAsAsked, PTL
<1>16. DeskSpec => []MultiTypeOK
  <2>1. DeskSpec => MultiSpec
    BY DeskRunsEach DEF SpecOfEach
  <2> QED
    BY <2>1, IdsStayRight, PTL
<1>17. /\ part \in Parts
       /\ SubTypeOK
       /\ CandleTypeOK
       /\ RecordTypeOK
       /\ IdempotencyTypeOK
       /\ RotationTypeOK
       /\ AsyncTypeOK
       /\ MonitorTypeOK
       /\ CloseAllTypeOK
       /\ OpenTimeTypeOK
       /\ BreakerTypeOK
       /\ BucketTypeOK
       /\ SettlementTypeOK
       /\ StakeTypeOK
       /\ BacktestTypeOK
       /\ ExpirationTypeOK
       /\ MultiTypeOK
       => DeskTypeOK
  BY DEF DeskTypeOK
<1> QED
  BY DeskPartStays, <1>1, <1>2, <1>3, <1>4, <1>5, <1>6, <1>7, <1>8,
     <1>9, <1>10, <1>11, <1>12, <1>13, <1>14, <1>15, <1>16, <1>17, PTL
=============================================================================
