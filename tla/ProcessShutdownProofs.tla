------------------------- MODULE ProcessShutdownProofs -------------------------
(***************************************************************************)
(* Proofs about ProcessShutdown, for any number of connections to the      *)
(* metrics server.                                                         *)
(***************************************************************************)
EXTENDS ProcessShutdown, TLAPS

LEMMA InitInv == Init => Inv
<1> SUFFICES ASSUME Init PROVE Inv
  OBVIOUS
<1>1. TypeOK
  BY DEF Init, TypeOK, Programs, Locations, Alive
<1>2. ExitedLast /\ DrainedBeforeCancel /\ ErrorIsKept
  BY DEF Init, ExitedLast, DrainedBeforeCancel, ErrorIsKept
<1>3. WorkerScrapesServed /\ RunErrorIsFatal
  BY DEF Init, Alive, ScrapesServed, WorkerScrapesServed, RunErrorIsFatal
<1> QED BY <1>1, <1>2, <1>3 DEF Inv

LEMMA StepInv == Inv /\ [Next]_vars => Inv'
<1> SUFFICES ASSUME Inv, [Next]_vars PROVE Inv'
  OBVIOUS
<1> USE DEF Inv, Programs, TypeOK, Locations, Alive, ExitedLast,
            DrainedBeforeCancel, ErrorIsKept, ScrapesServed, WorkerScrapesServed,
            RunErrorIsFatal
<1>1. CASE StartupEnds
  BY <1>1 DEF StartupEnds, Exit
<1>2. CASE Serve
  BY <1>2 DEF Serve
<1>3. CASE RunReturns
  <2>1. result' \in {"nil", "error"} /\ main = "running"
    BY <1>3 DEF RunReturns, CallEnds
  <2>2. CASE program = "server"
    BY <1>3, <2>1, <2>2 DEF RunReturns
  <2>3. CASE program # "server"
    BY <1>3, <2>1, <2>3 DEF RunReturns
  <2> QED BY <2>2, <2>3
<1>4. CASE CheckErr
  <2>1. PICK e \in Seen : IF e = "error"
                            THEN Exit("fatal")
                            ELSE main' = "stopping" /\ UNCHANGED exit
    BY <1>4 DEF CheckErr
  <2>2. CASE e = "error"
    <3>1. /\ main' = "exited"
          /\ exit' = [how |-> "fatal", cut |-> scrapes # {}]
      BY <2>1, <2>2 DEF Exit
    <3>2. UNCHANGED <<program, signalled, cancelled, result, err, health, listening, scrapes>>
      BY <1>4 DEF CheckErr
    <3> QED BY <3>1, <3>2
  <2>3. CASE e # "error"
    <3>1. program # "tx_indexer" => result # "error"
      BY <1>4, <2>3 DEF CheckErr, Seen
    <3>2. program # "tx_indexer" => result = "nil"
      BY <1>4, <3>1 DEF CheckErr
    <3> QED BY <1>4, <2>1, <2>3, <3>2 DEF CheckErr
  <2> QED BY <2>2, <2>3
<1>5. CASE Stop
  BY <1>5 DEF Stop
<1>6. CASE Drained
  BY <1>6 DEF Drained
<1>7. CASE StopGivesUp
  BY <1>7 DEF StopGivesUp
<1>8. CASE Cancel
  BY <1>8 DEF Cancel
<1>9. CASE Leave
  BY <1>9 DEF Leave, Exit
<1>10. CASE Signal
  BY <1>10 DEF Signal
<1>11. CASE CancelOnSignal
  BY <1>11 DEF CancelOnSignal
<1>12. CASE HealthReturns
  BY <1>12 DEF HealthReturns
<1>13. ASSUME NEW c \in Scrapers, ScrapeBegins(c) PROVE Inv'
  BY <1>13 DEF ScrapeBegins
<1>14. ASSUME NEW c \in Scrapers, ScrapeEnds(c) PROVE Inv'
  BY <1>14 DEF ScrapeEnds
<1>15. CASE UNCHANGED vars
  BY <1>15 DEF vars
<1> QED BY <1>1, <1>2, <1>3, <1>4, <1>5, <1>6, <1>7, <1>8, <1>9, <1>10, <1>11,
           <1>12, <1>13, <1>14, <1>15 DEF Next, MainStep

(* Every reachable state satisfies the inductive invariant.                *)
THEOREM Invariance == Spec => []Inv
<1>1. Init => Inv
  BY InitInv
<1>2. Inv /\ [Next]_vars => Inv'
  BY StepInv
<1> QED BY <1>1, <1>2, PTL DEF Spec

(* Every variable keeps its type.                                          *)
THEOREM TypeCorrect == Spec => []TypeOK
<1>1. Inv => TypeOK
  BY DEF Inv
<1> QED BY <1>1, Invariance, PTL

(* A worker that leaves main has answered every request its metrics server *)
(* accepted.                                                               *)
THEOREM WorkerServes == Spec => []WorkerScrapesServed
<1>1. Inv => WorkerScrapesServed
  BY DEF Inv
<1> QED BY <1>1, Invariance, PTL

(* Worker and server never leave main quietly after their blocking call    *)
(* returned an error.                                                      *)
THEOREM ErrorsAreFatal == Spec => []RunErrorIsFatal
<1>1. Inv => RunErrorIsFatal
  BY DEF Inv
<1> QED BY <1>1, Invariance, PTL
=============================================================================
