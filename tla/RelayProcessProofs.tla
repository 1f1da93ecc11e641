-------------------------- MODULE RelayProcessProofs --------------------------
(***************************************************************************)
(* Theorems about RelayProcess, for any set of programs.                   *)
(***************************************************************************)
EXTENDS RelayProcess, TLAPS

(* Inv holds initially.                                                    *)
LEMMA InitInv == Init => Inv
<1> SUFFICES ASSUME Init PROVE Inv
  OBVIOUS
<1> USE ProgramsAssumption DEF Init, Commands, Looping, Places
<1>1. TypeOK
  <2>1. at \in Places /\ ticks \in 0 .. 2
    OBVIOUS
  <2>2. open \in SUBSET {"engine", "nats"}
    OBVIOUS
  <2> QED
    BY <2>1, <2>2, Zenon DEF TypeOK
<1>2. RequestUnderWay
  BY DEF RequestUnderWay
<1>3. PlaceSound
  BY DEF PlaceSound
<1>4. KeepsPolling
  BY DEF KeepsPolling
<1>5. CleanExit
  BY DEF CleanExit
<1> QED
  BY <1>1, <1>2, <1>3, <1>4, <1>5 DEF Inv

(* Inv is preserved by every step, one of the coroutine, of the task that  *)
(* runs stop(), or of the world around.                                    *)
LEMMA NextInv == Inv /\ [Next]_vars => Inv'
<1> SUFFICES ASSUME Inv, [Next]_vars PROVE Inv'
  OBVIOUS
<1> USE DEF Commands, Looping, Places, Resume, End, Goto
<1>0. TypeOK /\ RequestUnderWay /\ PlaceSound /\ KeepsPolling /\ CleanExit
  BY DEF Inv
<1>1. CASE Configure
  <2> USE <1>0, <1>1 DEF Configure, Reject, CreateEngine
  <2>1. TypeOK'
    BY DEF TypeOK
  <2>2. RequestUnderWay'
    BY DEF TypeOK, RequestUnderWay, PlaceSound
  <2>3. PlaceSound'
    BY DEF TypeOK, RequestUnderWay, PlaceSound
  <2>4. KeepsPolling'
    BY DEF TypeOK, RequestUnderWay, PlaceSound, KeepsPolling
  <2>5. CleanExit'
    BY DEF TypeOK, PlaceSound, CleanExit
  <2> QED
    BY <2>1, <2>2, <2>3, <2>4, <2>5 DEF Inv
<1>2. CASE Connect
  <2> USE <1>0, <1>2 DEF Connect, EnterLoop
  <2>1. TypeOK'
    BY DEF TypeOK
  <2>2. RequestUnderWay'
    BY DEF TypeOK, RequestUnderWay, PlaceSound
  <2>3. PlaceSound'
    BY DEF TypeOK, RequestUnderWay, PlaceSound
  <2>4. KeepsPolling'
    BY DEF TypeOK, RequestUnderWay, PlaceSound, KeepsPolling
  <2>5. CleanExit'
    BY DEF TypeOK, PlaceSound, CleanExit
  <2> QED
    BY <2>1, <2>2, <2>3, <2>4, <2>5 DEF Inv
<1>3. CASE StartMetrics
  <2> USE <1>0, <1>3 DEF StartMetrics, EnterLoop
  <2>1. TypeOK'
    BY DEF TypeOK
  <2>2. RequestUnderWay'
    BY DEF TypeOK, RequestUnderWay, PlaceSound
  <2>3. PlaceSound'
    BY DEF TypeOK, RequestUnderWay, PlaceSound
  <2>4. KeepsPolling'
    BY DEF TypeOK, RequestUnderWay, PlaceSound, KeepsPolling
  <2>5. CleanExit'
    BY DEF TypeOK, PlaceSound, CleanExit
  <2> QED
    BY <2>1, <2>2, <2>3, <2>4, <2>5 DEF Inv
<1>4. CASE Begin
  <2> USE <1>0, <1>4 DEF Begin
  <2>1. TypeOK'
    BY DEF TypeOK
  <2>2. RequestUnderWay'
    BY DEF TypeOK, RequestUnderWay, PlaceSound
  <2>3. PlaceSound'
    BY DEF TypeOK, RequestUnderWay, PlaceSound
  <2>4. KeepsPolling'
    BY DEF TypeOK, RequestUnderWay, PlaceSound, KeepsPolling
  <2>5. CleanExit'
    BY DEF TypeOK, PlaceSound, CleanExit
  <2> QED
    BY <2>1, <2>2, <2>3, <2>4, <2>5 DEF Inv
<1>5. CASE BeginWal
  <2> USE <1>0, <1>5 DEF BeginWal
  <2>1. TypeOK'
    BY DEF TypeOK
  <2>2. RequestUnderWay'
    BY DEF TypeOK, RequestUnderWay, PlaceSound
  <2>3. PlaceSound'
    BY DEF TypeOK, RequestUnderWay, PlaceSound
  <2>4. KeepsPolling'
    BY DEF TypeOK, RequestUnderWay, PlaceSound, KeepsPolling
  <2>5. CleanExit'
    BY DEF TypeOK, PlaceSound, CleanExit
  <2> QED
    BY <2>1, <2>2, <2>3, <2>4, <2>5 DEF Inv
<1>6. CASE Loop
  <2> USE <1>0, <1>6 DEF Loop, TickOutcome, LoopHead, BeginTick, Snooze, Return
  <2>1. TypeOK'
    BY DEF TypeOK
  <2>2. RequestUnderWay'
    BY DEF TypeOK, RequestUnderWay, PlaceSound
  <2>3. PlaceSound'
    BY DEF TypeOK, RequestUnderWay, PlaceSound
  <2>4. KeepsPolling'
    BY DEF TypeOK, RequestUnderWay, PlaceSound, KeepsPolling
  <2>5. CleanExit'
    BY DEF TypeOK, PlaceSound, CleanExit
  <2> QED
    BY <2>1, <2>2, <2>3, <2>4, <2>5 DEF Inv
<1>7. CASE Work
  <2> USE <1>0, <1>7 DEF Work, MayCommit
  <2>1. TypeOK'
    <3>1. at' \in Places /\ ended' = ended
      BY DEF Places, Goto
    <3>2. result' \in {"ok", "error", "cancelled"} /\ done' \in BOOLEAN
      OBVIOUS
    <3>3. stopTask' \in {"none", "queued", "overtaken", "over"}
      BY DEF TypeOK
    <3>4. UNCHANGED <<program, open, nats, handlers, running, cancelled, asked, ticks>>
      OBVIOUS
    <3> QED
      BY ONLY Inv, <3>1, <3>2, <3>3, <3>4 DEF Inv, TypeOK
  <2>2. RequestUnderWay'
    BY DEF TypeOK, RequestUnderWay, PlaceSound
  <2>3. PlaceSound'
    <3>1. /\ program' \in {"cleanup", "requeue", "dry-run"}
          /\ ~handlers' /\ ~running' /\ ended' = "no"
      BY DEF TypeOK, PlaceSound
    <3>2. at' = IF program' = "cleanup" THEN "close" ELSE "dispose"
      OBVIOUS
    <3>3. program' = "dry-run" => ~done'
      OBVIOUS
    <3>4. result' = "ok" => done' \/ program' = "dry-run"
      OBVIOUS
    <3>5. program' \in {"requeue", "dry-run"} => nats' = "none" /\ "nats" \notin open'
      BY DEF PlaceSound
    <3> QED
      BY ONLY <3>1, <3>2, <3>3, <3>4, <3>5 DEF PlaceSound, Looping, Commands
  <2>4. KeepsPolling'
    BY DEF TypeOK, RequestUnderWay, PlaceSound, KeepsPolling
  <2>5. CleanExit'
    BY DEF TypeOK, PlaceSound, CleanExit
  <2> QED
    BY <2>1, <2>2, <2>3, <2>4, <2>5 DEF Inv
<1>8. CASE Drain
  <2> USE <1>0, <1>8 DEF Drain
  <2>1. TypeOK'
    BY DEF TypeOK
  <2>2. RequestUnderWay'
    BY DEF TypeOK, RequestUnderWay, PlaceSound
  <2>3. PlaceSound'
    BY DEF TypeOK, RequestUnderWay, PlaceSound
  <2>4. KeepsPolling'
    BY DEF TypeOK, RequestUnderWay, PlaceSound, KeepsPolling
  <2>5. CleanExit'
    BY DEF TypeOK, PlaceSound, CleanExit
  <2> QED
    BY <2>1, <2>2, <2>3, <2>4, <2>5 DEF Inv
<1>9. CASE Close
  <2> USE <1>0, <1>9 DEF Close
  <2>1. TypeOK'
    BY DEF TypeOK
  <2>2. RequestUnderWay'
    BY DEF TypeOK, RequestUnderWay, PlaceSound
  <2>3. PlaceSound'
    BY DEF TypeOK, RequestUnderWay, PlaceSound
  <2>4. KeepsPolling'
    BY DEF TypeOK, RequestUnderWay, PlaceSound, KeepsPolling
  <2>5. CleanExit'
    BY DEF TypeOK, PlaceSound, CleanExit
  <2> QED
    BY <2>1, <2>2, <2>3, <2>4, <2>5 DEF Inv
<1>10. CASE Dispose
  <2> USE <1>0, <1>10 DEF Dispose
  <2>1. TypeOK'
    BY DEF TypeOK
  <2>2. RequestUnderWay'
    BY DEF TypeOK, RequestUnderWay, PlaceSound
  <2>3. PlaceSound'
    BY DEF TypeOK, RequestUnderWay, PlaceSound
  <2>4. KeepsPolling'
    BY DEF TypeOK, RequestUnderWay, PlaceSound, KeepsPolling
  <2>5. CleanExit'
    BY DEF TypeOK, PlaceSound, CleanExit
  <2> QED
    BY <2>1, <2>2, <2>3, <2>4, <2>5 DEF Inv
<1>11. CASE Interrupt
  <2> USE <1>0, <1>11 DEF Interrupt, Return
  <2>1. TypeOK'
    BY DEF TypeOK, MayCommit
  <2>2. RequestUnderWay'
    BY DEF TypeOK, RequestUnderWay, PlaceSound
  <2>3. PlaceSound'
    <3>1. CASE at \in {"tick", "sleep"}
      BY <3>1 DEF TypeOK, RequestUnderWay, PlaceSound
    <3>2. CASE at = "work"
      <4>1. /\ program' \in {"cleanup", "requeue", "dry-run"}
            /\ ~handlers' /\ ~running' /\ ended' = "no" /\ result' = "cancelled"
        BY <3>2 DEF TypeOK, PlaceSound
      <4>2. at' = IF program' = "cleanup" THEN "close" ELSE "dispose"
        BY <3>2
      <4>3. program' = "dry-run" => done' \in {FALSE}
        BY <3>2 DEF MayCommit
      <4>4. program' \in {"requeue", "dry-run"} => nats' = "none" /\ "nats" \notin open'
        BY <3>2 DEF PlaceSound
      <4> QED
        BY ONLY <4>1, <4>2, <4>3, <4>4 DEF PlaceSound, Looping, Commands
    <3>3. CASE at \notin {"tick", "sleep", "work"}
      BY <3>3 DEF TypeOK, RequestUnderWay, PlaceSound
    <3> QED
      BY <3>1, <3>2, <3>3
  <2>4. KeepsPolling'
    BY DEF TypeOK, RequestUnderWay, PlaceSound, KeepsPolling
  <2>5. CleanExit'
    <3>1. CASE at \in {"tick", "sleep"}
      BY <3>1 DEF TypeOK, PlaceSound, CleanExit
    <3>2. CASE at = "work"
      <4>1. /\ program' \in {"cleanup", "requeue", "dry-run"}
            /\ ~handlers' /\ ended' = "no"
        BY <3>2 DEF TypeOK, PlaceSound
      <4>2. program' = "dry-run" => done' \in {FALSE}
        BY <3>2 DEF MayCommit
      <4> QED
        BY ONLY <4>1, <4>2 DEF CleanExit
    <3>3. CASE at \notin {"tick", "sleep", "work"}
      BY <3>3 DEF TypeOK, PlaceSound, CleanExit
    <3> QED
      BY <3>1, <3>2, <3>3
  <2> QED
    BY <2>1, <2>2, <2>3, <2>4, <2>5 DEF Inv
<1>12. CASE RunStop
  <2> USE <1>0, <1>12 DEF RunStop
  <2>1. TypeOK'
    BY DEF TypeOK
  <2>2. RequestUnderWay'
    BY DEF TypeOK, RequestUnderWay, PlaceSound
  <2>3. PlaceSound'
    BY DEF TypeOK, RequestUnderWay, PlaceSound
  <2>4. KeepsPolling'
    BY DEF TypeOK, RequestUnderWay, PlaceSound, KeepsPolling
  <2>5. CleanExit'
    BY DEF TypeOK, PlaceSound, CleanExit
  <2> QED
    BY <2>1, <2>2, <2>3, <2>4, <2>5 DEF Inv
<1>13. CASE Signal
  <2> USE <1>0, <1>13 DEF Signal
  <2>1. TypeOK'
    <3>1. stopTask' \in {"none", "queued", "overtaken", "over"}
      BY DEF TypeOK
    <3>2. cancelled' \in BOOLEAN /\ asked' \in BOOLEAN
      BY DEF TypeOK
    <3>3. UNCHANGED <<program, at, open, nats, handlers, running, result, done, ended, ticks>>
      OBVIOUS
    <3> QED
      BY ONLY Inv, <3>1, <3>2, <3>3 DEF Inv, TypeOK
  <2>2. RequestUnderWay'
    BY DEF TypeOK, RequestUnderWay, PlaceSound
  <2>3. PlaceSound'
    BY DEF TypeOK, RequestUnderWay, PlaceSound
  <2>4. KeepsPolling'
    BY DEF TypeOK, RequestUnderWay, PlaceSound, KeepsPolling
  <2>5. CleanExit'
    BY DEF TypeOK, PlaceSound, CleanExit
  <2> QED
    BY <2>1, <2>2, <2>3, <2>4, <2>5 DEF Inv
<1>14. CASE HostStop
  <2> USE <1>0, <1>14 DEF HostStop
  <2>1. TypeOK'
    <3>1. running' \in BOOLEAN /\ asked' \in BOOLEAN
      BY DEF TypeOK
    <3>2. UNCHANGED <<program, at, open, nats, handlers, stopTask, cancelled, result, done, ended, ticks>>
      OBVIOUS
    <3> QED
      BY ONLY Inv, <3>1, <3>2 DEF Inv, TypeOK
  <2>2. RequestUnderWay'
    BY DEF TypeOK, RequestUnderWay, PlaceSound
  <2>3. PlaceSound'
    BY DEF TypeOK, RequestUnderWay, PlaceSound
  <2>4. KeepsPolling'
    BY DEF TypeOK, RequestUnderWay, PlaceSound, KeepsPolling
  <2>5. CleanExit'
    BY DEF TypeOK, PlaceSound, CleanExit
  <2> QED
    BY <2>1, <2>2, <2>3, <2>4, <2>5 DEF Inv
<1>15. CASE HostCancel
  <2> USE <1>0, <1>15 DEF HostCancel
  <2>1. TypeOK'
    BY DEF TypeOK
  <2>2. RequestUnderWay'
    BY DEF TypeOK, RequestUnderWay, PlaceSound
  <2>3. PlaceSound'
    BY DEF TypeOK, RequestUnderWay, PlaceSound
  <2>4. KeepsPolling'
    BY DEF TypeOK, RequestUnderWay, PlaceSound, KeepsPolling
  <2>5. CleanExit'
    BY DEF TypeOK, PlaceSound, CleanExit
  <2> QED
    BY <2>1, <2>2, <2>3, <2>4, <2>5 DEF Inv
<1>16. CASE Kill
  <2> USE <1>0, <1>16 DEF Kill
  <2>1. TypeOK'
    BY DEF TypeOK
  <2>2. RequestUnderWay'
    BY DEF TypeOK, RequestUnderWay, PlaceSound
  <2>3. PlaceSound'
    BY DEF TypeOK, RequestUnderWay, PlaceSound
  <2>4. KeepsPolling'
    BY DEF TypeOK, RequestUnderWay, PlaceSound, KeepsPolling
  <2>5. CleanExit'
    BY DEF TypeOK, PlaceSound, CleanExit
  <2> QED
    BY <2>1, <2>2, <2>3, <2>4, <2>5 DEF Inv
<1>17. CASE Network
  <2> USE <1>0, <1>17 DEF Network
  <2>1. TypeOK'
    <3>1. nats' \in {"up", "reconnecting", "closed"}
      BY DEF TypeOK
    <3>2. open' \in SUBSET {"engine", "nats"}
      BY DEF TypeOK
    <3>3. UNCHANGED <<program, at, handlers, running, stopTask, cancelled, result, done, ended, asked, ticks>>
      OBVIOUS
    <3> QED
      BY ONLY Inv, <3>1, <3>2, <3>3 DEF Inv, TypeOK
  <2>2. RequestUnderWay'
    BY DEF TypeOK, RequestUnderWay, PlaceSound
  <2>3. PlaceSound'
    BY DEF TypeOK, RequestUnderWay, PlaceSound
  <2>4. KeepsPolling'
    BY DEF TypeOK, RequestUnderWay, PlaceSound, KeepsPolling
  <2>5. CleanExit'
    BY DEF TypeOK, PlaceSound, CleanExit
  <2> QED
    BY <2>1, <2>2, <2>3, <2>4, <2>5 DEF Inv
<1>18. CASE UNCHANGED vars
  BY <1>0, <1>18 DEF vars, Inv, TypeOK, RequestUnderWay, PlaceSound, KeepsPolling, CleanExit
<1> QED
  BY <1>1, <1>2, <1>3, <1>4, <1>5, <1>6, <1>7, <1>8, <1>9,
     <1>10, <1>11, <1>12, <1>13, <1>14, <1>15, <1>16, <1>17, <1>18 DEF Next, Main

(* In every reachable state what has been asked is under way, and what is  *)
(* held fits the place the coroutine stands at.                            *)
THEOREM Invariance == Spec => []Inv
BY InitInv, NextInv, PTL DEF Spec

(* A stop or a cancellation lets at most one tick begin after it.          *)
THEOREM BoundedStop == Spec => []AtMostOneMoreTick
<1>1. Inv => AtMostOneMoreTick
  BY DEF Inv, TypeOK, RequestUnderWay, AtMostOneMoreTick
<1> QED
  BY Invariance, <1>1, PTL

(* No error of a tick and no state of NATS ends the loop.                  *)
THEOREM Polling == Spec => []KeepsPolling
<1>1. Inv => KeepsPolling
  BY DEF Inv
<1> QED
  BY Invariance, <1>1, PTL

(* A command that ends normally has done its work and released what it     *)
(* had acquired.                                                           *)
THEOREM CleanExits == Spec => []CleanExit
<1>1. Inv => CleanExit
  BY DEF Inv
<1> QED
  BY Invariance, <1>1, PTL

=============================================================================
