----------------------------- MODULE StoreProofs -----------------------------
(***************************************************************************)
(* Proofs about the embedded port, for any number of threads, names and    *)
(* documents.  Inv is what the lock and the order of the steps maintain    *)
(* even while files are edited out of band; with no such edits what a      *)
(* mutation read also stays true until its write lands (DecisionStands),   *)
(* and the store implements the document port.                             *)
(***************************************************************************)
EXTENDS Store, TLAPS

(* The steps taken under the lock, and those of a write. *)
Holding == {"locked", "vetted", "writing", "staging", "renaming", "removing"}
Landing == {"writing", "staging", "renaming"}

(* A call is open exactly while its thread is busy, an answer exactly at   *)
(* the end.                                                                *)
Open(t) ==
  /\ pc[t] # "idle" <=> call[t] # Nothing
  /\ pc[t] = "answered" <=> ans[t] # Nothing

(* Who works under the lock holds it and has passed the early checks. *)
Locked(t) ==
  /\ pc[t] \in Holding => mu = t /\ ~Unlockable(t)
  /\ pc[t] \in Holding \ {"locked"} => BodyParses(t)

(* What a mutation decided on is what its request does to what it read. *)
Planned(t) ==
  /\ pc[t] \in Landing =>
       /\ Valid(call[t].name) /\ call[t].op \in {"put", "apply"}
       /\ plan[t].was \in Resident \cup Unservable
       /\ Effect(call[t], plan[t].was, plan[t].new)
       /\ call[t].op = "apply" => plan[t].old = plan[t].was
  /\ pc[t] = "removing" =>
       Valid(call[t].name) /\ call[t].op = "delete" /\ Met(call[t], plan[t].was)
  /\ pc[t] = "renaming" => staged[File(t)] = Text[plan[t].new]

Inv ==
  /\ TypeOK
  /\ \A t \in Thread : Open(t) /\ Locked(t) /\ Planned(t) /\ Bounded(t)

USE DEF Holding, Landing

(* A file loads as a document within budget or as a reason it does not. *)
LEMMA LoadedType ==
  ASSUME files \in [Path -> Content], NEW p \in Path
  PROVE  /\ Loaded(p) \in Resident \cup Unservable
         /\ Loaded(p) \in Doc <=> Loaded(p) \in Resident
  BY DocAssumption, ParseAssumption, TornAssumption
     DEF Loaded, Load, ParseWith, Content, Unservable

(* Every request names something, and its fields are what its op says. *)
LEMMA RequestFields ==
  ASSUME NEW r \in Requests
  PROVE  /\ r \in Request /\ r.name \in Name /\ r # Nothing
         /\ r.op \in {"get", "put", "apply", "delete"}
         /\ r.op = "put" => r.body \in Raw /\ r.expect \in Expect
         /\ r.op = "apply" => r.batch \in Batch /\ r.expect \in Rev
         /\ r.op = "delete" => r.expect \in Rev
  BY RequestAssumption, NothingAssumption DEF Request

LEMMA RefusalType ==
  ASSUME NEW why \in Reason PROVE Refusal(why) \in Answer /\ Refusal(why) # Nothing
  <1>1. Refusal(why) \in Answer
    BY DEF Refusal, Answer
  <1> QED
    BY <1>1, NothingAssumption

LEMMA Initially == Init => Inv
  <1> SUFFICES ASSUME Init PROVE Inv
    OBVIOUS
  <1>1. TypeOK
    BY OobAssumption DEF Init, TypeOK, Content, NoPlan, Unservable
  <1>2. \A t \in Thread : Open(t) /\ Locked(t) /\ Planned(t) /\ Bounded(t)
    BY DEF Init, Open, Locked, Planned, Bounded, Bounded, NoPlan
  <1> QED
    BY <1>1, <1>2 DEF Inv

(* An answer under the lock: the thread's claims end with it. *)
LEMMA FinishKeeps ==
  ASSUME Inv, NEW t \in Thread, NEW a \in Answer, pc[t] \in Holding,
         {a.old, a.new} \subseteq Resident \cup {Nothing},
         Finish(t, a), files' \in [Path -> Content], staged' \in [Path -> Content]
  PROVE  Inv'
  <1>1. TypeOK'
    BY DEF Inv, TypeOK, Finish, Goto, NoPlan, Unservable
  <1>2. ASSUME NEW s \in Thread PROVE Open(s)' /\ Locked(s)' /\ Planned(s)' /\ Bounded(s)'
    <2>1. CASE s = t
      BY <2>1, NothingAssumption
      DEF Inv, TypeOK, Open, Locked, Planned, Bounded, Finish, Goto, NoPlan
    <2>2. CASE s # t
      <3>1. pc[s] \notin Holding
        BY <2>2 DEF Inv, Locked
      <3>2. pc'[s] = pc[s] /\ call'[s] = call[s] /\ ans'[s] = ans[s]
        BY <2>2 DEF Inv, TypeOK, Finish, Goto
      <3>3. plan'[s] = plan[s]
        BY <2>2 DEF Inv, TypeOK, Finish
      <3> QED
        BY <3>1, <3>2, <3>3 DEF Inv, Open, Locked, Planned, Bounded
    <2> QED
      BY <2>1, <2>2
  <1> QED
    BY <1>1, <1>2 DEF Inv

LEMMA FailKeeps ==
  ASSUME Inv, NEW t \in Thread, NEW why \in Reason, pc[t] \in Holding, Fail(t, why)
  PROVE  Inv'
  BY FinishKeeps, RefusalType DEF Fail, Inv, TypeOK, Refusal

(* The steps before and after the lock touch one thread that holds nothing. *)
LEMMA OutsideKeeps ==
  ASSUME Inv, NEW t \in Thread, Invoke(t) \/ RejectEarly(t) \/ Lock(t) \/ Return(t)
  PROVE  Inv'
  <1>1. TypeOK'
    <2>1. Refusal("precondition") \in Answer /\ Refusal("missing") \in Answer
      BY RefusalType DEF Reason, Unservable
    <2>2. CASE Invoke(t)
      BY <2>2 DEF Inv, TypeOK, Invoke, Goto
    <2>3. CASE RejectEarly(t)
      BY <2>1, <2>3 DEF Inv, TypeOK, RejectEarly, Reject, Goto
    <2>4. CASE Lock(t)
      BY <2>4 DEF Inv, TypeOK, Lock, Goto
    <2>5. CASE Return(t)
      BY <2>5 DEF Inv, TypeOK, Return, Goto
    <2> QED
      BY <2>2, <2>3, <2>4, <2>5
  <1>2. ASSUME NEW s \in Thread PROVE Open(s)' /\ Locked(s)' /\ Planned(s)' /\ Bounded(s)'
    <2>1. CASE s = t
      <3>1. CASE Invoke(t)
        BY <2>1, <3>1, RequestFields DEF Inv, TypeOK, Open, Locked, Planned, Bounded, Invoke, Goto
      <3>2. CASE RejectEarly(t)
        <4>1. \A why \in Reason : Refusal(why) # Nothing
          BY RefusalType
        <4>2. PICK why \in Reason : Reject(t, why)
          BY <3>2 DEF RejectEarly, Reason, Unservable
        <4>3. pc[t] = "entered"
          BY <3>2 DEF RejectEarly
        <4> QED
          BY <2>1, <4>1, <4>2, <4>3
          DEF Inv, TypeOK, Open, Locked, Planned, Bounded, Reject, Goto, Refusal
      <3>3. CASE Lock(t)
        BY <2>1, <3>3
        DEF Inv, TypeOK, Open, Locked, Planned, Bounded, Lock, Goto, Unlockable
      <3>4. CASE Return(t)
        BY <2>1, <3>4 DEF Inv, TypeOK, Open, Locked, Planned, Bounded, Return, Goto
      <3> QED
        BY <3>1, <3>2, <3>3, <3>4
    <2>2. CASE s # t
      <3>1. pc'[s] = pc[s] /\ call'[s] = call[s] /\ ans'[s] = ans[s] /\ plan' = plan
            /\ staged' = staged
        BY <2>2 DEF Inv, TypeOK, Invoke, RejectEarly, Reject, Lock, Return, Goto
      <3>2. pc[s] \in Holding => mu' = mu
        BY ThreadAssumption DEF Inv, Locked, Invoke, RejectEarly, Reject, Lock, Return
      <3> QED
        BY <3>1, <3>2 DEF Inv, Open, Locked, Planned, Bounded, Unlockable, BodyParses, File
    <2> QED
      BY <2>1, <2>2
  <1> QED
    BY <1>1, <1>2 DEF Inv

(* A step of the lock holder that answers nothing yet moves it from one    *)
(* place under the lock to another: the others keep what they have.        *)
LEMMA AdvanceKeeps ==
  ASSUME Inv, NEW t \in Thread, pc[t] \in Holding, NEW label \in Holding \ {"locked"},
         Goto(t, label), UNCHANGED <<mu, call, ans, oob>>, TypeOK', BodyParses(t), Planned(t)', Bounded(t)',
         \A s \in Thread : s # t => plan'[s] = plan[s]
  PROVE  Inv'
  <1>1. ASSUME NEW s \in Thread PROVE Open(s)' /\ Locked(s)' /\ Planned(s)' /\ Bounded(s)'
    <2>1. CASE s = t
      BY <2>1 DEF Inv, TypeOK, Open, Locked, Goto, Unlockable, BodyParses
    <2>2. CASE s # t
      <3>1. pc[s] \notin Holding
        BY <2>2 DEF Inv, Locked
      <3>2. pc'[s] = pc[s]
        BY <2>2 DEF Inv, TypeOK, Goto
      <3> QED
        BY <3>1, <3>2 DEF Inv, Open, Locked, Planned, Bounded
    <2> QED
      BY <2>1, <2>2
  <1> QED
    BY <1>1 DEF Inv

LEMMA FoundType ==
  ASSUME TypeOK, NEW t \in Thread, call[t] # Nothing
  PROVE  /\ Found(t) \in Resident \cup Unservable
         /\ Found(t) \in Doc <=> Found(t) \in Resident
         /\ Valid(call[t].name) => File(t) = call[t].name /\ File(t) \in Path
         /\ File(t) \in Path
  BY LoadedType, RequestFields, NameAssumption, DocAssumption
  DEF TypeOK, Found, File, Valid, Unservable

LEMMA CheckKeeps ==
  ASSUME Inv, NEW t \in Thread, CheckPut(t) \/ CheckApply(t) \/ CheckDelete(t)
  PROVE  Inv'
  <1> DEFINE h == Found(t)
  <1>1. /\ call[t] \in Requests /\ call[t] # Nothing /\ pc[t] = "vetted" /\ BodyParses(t)
        /\ ~Unlockable(t)
    BY DEF Inv, TypeOK, Open, Locked, CheckPut, CheckApply, CheckDelete
  <1>2. /\ h \in Resident \cup Unservable /\ (h \in Doc <=> h \in Resident)
        /\ Valid(call[t].name) => File(t) = call[t].name
        /\ File(t) \in Path
    BY <1>1, FoundType DEF Inv
  <1>3. CASE \E why \in Reason : Fail(t, why)
    BY <1>1, <1>3, FailKeeps
  <1>4. ASSUME NEW old \in Resident \cup {Nothing}, NEW new \in Resident \cup {Nothing},
               NEW label \in {"writing", "removing"}, Decide(t, old, new, label), Planned(t)'
        PROVE  Inv'
    <2>1. TypeOK'
      BY <1>2, <1>4, DocAssumption DEF Inv, TypeOK, Decide, Goto
    <2>2. Bounded(t)'
      BY <1>4 DEF Inv, TypeOK, Decide, Bounded
    <2> QED
      BY <1>1, <1>4, <2>1, <2>2, AdvanceKeeps DEF Decide, Inv, TypeOK
  <1>5. CASE CheckPut(t)
    <2>1. CASE \E why \in {"exists", "precondition"} : Fail(t, why)
      BY <1>3, <2>1 DEF Reason
    <2>2. CASE Decide(t, Nothing, ParseWith(call[t].body), "writing")
      <3>1. call[t].op = "put" /\ Valid(call[t].name)
        BY <1>1, <1>5 DEF CheckPut, Unlockable
      <3>2. ParseWith(call[t].body) \in Resident
            /\ ParseWith(call[t].body) = Parse[call[t].body]
        BY <1>1, <3>1, RequestFields, ParseAssumption, DocAssumption
        DEF BodyParses, ParseWith, Unservable
      <3>3. Met(call[t], h)
        BY <1>5, <2>2, <1>1, RequestFields, ExpectAssumption, RevisionAssumption, DocAssumption
        DEF CheckPut, Met, Decide, Fail, Finish, Goto, Inv, TypeOK
      <3>4. Planned(t)'
        BY <1>1, <1>2, <2>2, <3>1, <3>2, <3>3 DEF Planned, Decide, Effect, Goto, Inv, TypeOK
      <3> QED
        BY <1>4, <2>2, <3>2, <3>4, DocAssumption
    <2> QED
      BY <1>5, <2>1, <2>2 DEF CheckPut
  <1>6. CASE CheckApply(t)
    <2>1. CASE Fail(t, "precondition")
      BY <1>3, <2>1 DEF Reason
    <2>2. Fold[h][call[t].batch] \in Resident \cup {"base", "refused"}
      BY <1>1, <1>6, RequestFields, FoldAssumption DEF CheckApply
    <2>3. CASE Fold[h][call[t].batch] \notin Doc /\ Fail(t, Fold[h][call[t].batch])
      BY <1>3, <2>2, <2>3, DocAssumption DEF Reason
    <2>4. CASE /\ call[t].expect = Revision[h] /\ Fold[h][call[t].batch] \in Doc
               /\ Decide(t, h, Fold[h][call[t].batch], "writing")
      <3>1. call[t].op = "apply" /\ h \in Doc /\ Valid(call[t].name)
        BY <1>6, DocAssumption DEF CheckApply, Found, Unservable
      <3>2. Fold[h][call[t].batch] \in Resident
        BY <2>2, <2>4, DocAssumption
      <3>3. Planned(t)'
        BY <1>1, <1>2, <2>4, <3>1, <3>2 DEF Planned, Decide, Effect, Met, Goto, Inv, TypeOK
      <3> QED
        BY <1>2, <1>4, <2>4, <3>1, <3>2, <3>3
    <2> QED
      BY <1>6, <2>1, <2>3, <2>4 DEF CheckApply
  <1>7. CASE CheckDelete(t)
    <2>1. CASE Fail(t, "precondition")
      BY <1>3, <2>1 DEF Reason
    <2>2. CASE call[t].expect = Revision[h] /\ Decide(t, Nothing, Nothing, "removing")
      <3>1. call[t].op = "delete" /\ h \in Doc /\ Valid(call[t].name)
        BY <1>7, DocAssumption DEF CheckDelete, Found, Unservable
      <3>2. Planned(t)'
        BY <1>1, <2>2, <3>1 DEF Planned, Decide, Met, Goto, Inv, TypeOK
      <3> QED
        BY <1>4, <2>2, <3>2
    <2> QED
      BY <1>7, <2>1, <2>2 DEF CheckDelete
  <1> QED
    BY <1>5, <1>6, <1>7

(* What the plan of a landing write holds is within budget. *)
LEMMA PlanType ==
  ASSUME Inv, NEW t \in Thread, pc[t] \in Landing
  PROVE  /\ call[t] \in Requests /\ call[t].name \in Path /\ File(t) = call[t].name
         /\ call[t].op \in {"put", "apply"}
         /\ plan[t].new \in Resident
         /\ call[t].op = "apply" => plan[t].old \in Resident
         /\ Text[plan[t].new] \in Raw /\ Parse[Text[plan[t].new]] = plan[t].new
  <1>1. /\ call[t] \in Requests /\ call[t].name \in Path /\ File(t) = call[t].name
        /\ call[t].op \in {"put", "apply"}
    BY NameAssumption DEF Inv, TypeOK, Open, Planned, File, Valid
  <1>2. plan[t].new \in Resident
    BY <1>1 DEF Inv, Planned, Effect
  <1>3. call[t].op = "apply" => plan[t].old \in Resident
    <2> SUFFICES ASSUME call[t].op = "apply" PROVE plan[t].old \in Resident
      OBVIOUS
    <2>1. plan[t].old = plan[t].was /\ plan[t].was \in Resident \cup Unservable
      BY DEF Inv, Planned
    <2>2. Met(call[t], plan[t].was)
      BY DEF Inv, Planned, Effect
    <2>3. call[t].expect # "absent"
      BY <1>1, RequestFields, ExpectAssumption
    <2>4. plan[t].was \in Doc
      BY <2>2, <2>3 DEF Met
    <2> QED
      BY <2>1, <2>4, DocAssumption
  <1>4. Text[plan[t].new] \in Raw /\ Parse[Text[plan[t].new]] = plan[t].new
    BY <1>2, ParseAssumption, DocAssumption
  <1> QED
    BY <1>1, <1>2, <1>3, <1>4

LEMMA LandingKeeps ==
  ASSUME Inv, NEW t \in Thread,
         Stage(t) \/ StageFails(t) \/ Staged(t) \/ RenameFails(t) \/ Rename(t)
  PROVE  Inv'
  <1>1. pc[t] \in Landing
    BY DEF Stage, StageFails, Staged, RenameFails, Rename
  <1>2. /\ call[t] \in Requests /\ call[t].name \in Path /\ File(t) = call[t].name
        /\ call[t].op \in {"put", "apply"}
        /\ plan[t].new \in Resident /\ Text[plan[t].new] \in Raw
        /\ call[t].op = "apply" => plan[t].old \in Resident
    BY <1>1, PlanType
  <1>3. BodyParses(t)
    BY <1>1 DEF Inv, Locked
  <1>4. CASE Stage(t)
    <2>1. TypeOK'
      BY <1>2, <1>4 DEF Inv, TypeOK, Stage, Goto, Content
    <2>2. Planned(t)'
      BY <1>4 DEF Inv, TypeOK, Stage, Goto, Planned
    <2> QED
      BY <1>1, <1>3, <1>4, <2>1, <2>2, AdvanceKeeps DEF Stage, Inv, Bounded
  <1>5. CASE StageFails(t)
    BY <1>1, <1>5, FailKeeps DEF StageFails, Reason
  <1>6. CASE Staged(t)
    <2>1. TypeOK'
      BY <1>2, <1>6 DEF Inv, TypeOK, Staged, Goto, Content
    <2>2. Planned(t)'
      BY <1>2, <1>6 DEF Inv, TypeOK, Staged, Goto, Planned, File
    <2> QED
      BY <1>1, <1>3, <1>6, <2>1, <2>2, AdvanceKeeps DEF Staged, Inv, Bounded
  <1>7. CASE RenameFails(t)
    <2>1. staged' \in [Path -> Content] /\ files' \in [Path -> Content]
      BY <1>2, <1>7 DEF RenameFails, Inv, TypeOK, Content
    <2> QED
      BY <1>1, <1>7, <2>1, FinishKeeps, RefusalType DEF RenameFails, Reason, Refusal
  <1>8. CASE Rename(t)
    <2>1. staged' \in [Path -> Content] /\ files' \in [Path -> Content]
      BY <1>2, <1>8 DEF Rename, Inv, TypeOK, Content
    <2>2. Landed(t) \in Answer /\ {Landed(t).old, Landed(t).new} \subseteq Resident \cup {Nothing}
      BY <1>2, DocAssumption DEF Landed, Snapped, Applied, Answer
    <2> QED
      BY <1>1, <1>8, <2>1, <2>2, FinishKeeps DEF Rename
  <1> QED
    BY <1>4, <1>5, <1>6, <1>7, <1>8

LEMMA WorkKeeps ==
  ASSUME Inv, NEW t \in Thread, Work(t)
  PROVE  Inv'
  <1>1. pc[t] \in Holding => call[t] \in Requests /\ call[t] # Nothing
    BY DEF Inv, TypeOK, Open
  <1>2. pc[t] \in Holding => /\ Found(t) \in Resident \cup Unservable
                             /\ Found(t) \in Doc <=> Found(t) \in Resident
                             /\ File(t) \in Path
    BY <1>1, FoundType DEF Inv
  <1>3. CASE RefuseBody(t)
    BY <1>3, FailKeeps DEF RefuseBody, Reason, Unservable
  <1>4. CASE VetFile(t)
    <2>1. CASE Fail(t, "toolarge")
      BY <1>4, <2>1, FailKeeps DEF VetFile, Reason, Unservable
    <2>2. CASE Goto(t, "vetted") /\ UNCHANGED <<files, staged, mu, call, ans, plan, oob>>
      <3>1. TypeOK'
        BY <2>2 DEF Inv, TypeOK, Goto
      <3>2. Planned(t)'
        BY <2>2 DEF Inv, TypeOK, Planned, Goto
      <3> QED
        BY <1>4, <2>2, <3>1, <3>2, AdvanceKeeps DEF VetFile, Inv, Bounded
    <2> QED
      BY <1>4, <2>1, <2>2 DEF VetFile
  <1>5. CASE ReadFails(t)
    BY <1>5, FailKeeps DEF ReadFails, Reason
  <1>6. CASE RefuseLoad(t)
    BY <1>6, FailKeeps DEF RefuseLoad, Reason, Unservable
  <1>7. CASE AnswerGet(t)
    <2>1. Snapped(Found(t), FALSE) \in Answer
      BY <1>7 DEF AnswerGet, Snapped, Answer
    <2> QED
      BY <1>7, <2>1, <1>2, FinishKeeps DEF AnswerGet, Inv, TypeOK, Snapped
  <1>8. CASE CheckPut(t) \/ CheckApply(t) \/ CheckDelete(t)
    BY <1>8, CheckKeeps
  <1>9. CASE Remove(t)
    <2>1. CASE Fail(t, "write")
      BY <1>9, <2>1, FailKeeps DEF Remove, Reason
    <2>2. CASE files' = [files EXCEPT ![File(t)] = Nothing] /\ Finish(t, Done) /\ UNCHANGED staged
      <3>1. files' \in [Path -> Content] /\ staged' \in [Path -> Content]
        BY <2>2 DEF Inv, TypeOK, Content
      <3>2. Done \in Answer
        BY DEF Done, Answer
      <3> QED
        BY <1>9, <2>2, <3>1, <3>2, FinishKeeps DEF Remove, Done
    <2> QED
      BY <1>9, <2>1, <2>2 DEF Remove
  <1>10. CASE RefuseDir(t)
    BY <1>10, FailKeeps DEF RefuseDir, Reason, Unservable
  <1>11. CASE Stage(t) \/ StageFails(t) \/ Staged(t) \/ RenameFails(t) \/ Rename(t)
    BY <1>11, LandingKeeps
  <1> QED
    BY <1>3, <1>4, <1>5, <1>6, <1>7, <1>8, <1>9, <1>10, <1>11 DEF Work

LEMMA CrashKeeps == Inv /\ Crash => Inv'
  <1> SUFFICES ASSUME Inv, Crash PROVE Inv'
    OBVIOUS
  <1>1. TypeOK'
    BY DEF Inv, TypeOK, Crash, NoPlan, Unservable
  <1>2. \A t \in Thread : Open(t)' /\ Locked(t)' /\ Planned(t)' /\ Bounded(t)'
    BY DEF Crash, Open, Locked, Planned, Bounded, NoPlan
  <1> QED
    BY <1>1, <1>2 DEF Inv

LEMMA OutOfBandKeeps == Inv /\ OutOfBand => Inv'
  <1> SUFFICES ASSUME Inv, OutOfBand PROVE Inv'
    OBVIOUS
  <1>1. TypeOK'
    BY OobAssumption DEF Inv, TypeOK, OutOfBand, Content
  <1>2. \A t \in Thread : Open(t)' /\ Locked(t)' /\ Planned(t)' /\ Bounded(t)'
    BY DEF Inv, OutOfBand, Open, Locked, Planned, Bounded, Unlockable, BodyParses, File
  <1> QED
    BY <1>1, <1>2 DEF Inv

LEMMA NextKeeps == Inv /\ [Next]_vars => Inv'
  <1> SUFFICES ASSUME Inv, [Next]_vars PROVE Inv'
    OBVIOUS
  <1>1. CASE Next
    BY <1>1, OutsideKeeps, WorkKeeps, CrashKeeps, OutOfBandKeeps DEF Next
  <1>2. CASE UNCHANGED vars
    <2>1. TypeOK'
      BY <1>2 DEF Inv, TypeOK, vars
    <2>2. \A t \in Thread : Open(t)' /\ Locked(t)' /\ Planned(t)' /\ Bounded(t)'
      BY <1>2 DEF Inv, vars, Open, Locked, Planned, Bounded, Unlockable, BodyParses, File
    <2> QED
      BY <2>1, <2>2 DEF Inv
  <1> QED
    BY <1>1, <1>2

THEOREM Invariance == Spec => []Inv
  <1> QED
    BY Initially, NextKeeps, PTL DEF Spec

(* Every variable of the store keeps its type, whatever fails and whoever  *)
(* edits the files.                                                        *)
THEOREM TypeCorrect == Spec => []TypeOK
  <1>1. Inv => TypeOK
    BY DEF Inv
  <1> QED
    BY <1>1, Invariance, PTL

(* No document over the cell budget is handed out or stored, even when a   *)
(* file grows between its census and its read.                             *)
THEOREM BudgetAlwaysHeld == Spec => []BudgetHeld
  <1>1. Inv => BudgetHeld
    BY DEF Inv, BudgetHeld
  <1> QED
    BY <1>1, Invariance, PTL

(* How the files may change in one step of the store itself. *)
LEMMA FilesChange ==
  ASSUME Inv, [Next]_vars, oob' = oob
  PROVE  \/ UNCHANGED files
         \/ \E t \in Thread : /\ Rename(t)
                              /\ pc[t] = "renaming"
                              /\ files' = [files EXCEPT ![File(t)] = Text[plan[t].new]]
         \/ \E t \in Thread : /\ Remove(t)
                              /\ pc[t] = "removing" /\ pc'[t] = "answered"
                              /\ files' = [files EXCEPT ![File(t)] = Nothing]
                              /\ Finish(t, Done) /\ UNCHANGED staged
  <1>1. CASE UNCHANGED vars
    BY <1>1 DEF vars
  <1>2. CASE Crash
    BY <1>2 DEF Crash
  <1>3. CASE OutOfBand
    BY <1>3 DEF OutOfBand, Inv, TypeOK
  <1>4. ASSUME NEW t \in Thread, Invoke(t) \/ RejectEarly(t) \/ Lock(t) \/ Return(t)
        PROVE  UNCHANGED files
    BY <1>4 DEF Invoke, RejectEarly, Reject, Lock, Return
  <1>5. ASSUME NEW t \in Thread, Rename(t)
        PROVE  /\ pc[t] = "renaming"
               /\ files' = [files EXCEPT ![File(t)] = Text[plan[t].new]]
    BY <1>5 DEF Rename, Inv, Planned
  <1>6. ASSUME NEW t \in Thread, Remove(t)
        PROVE  \/ UNCHANGED files
               \/ /\ pc[t] = "removing" /\ pc'[t] = "answered"
                  /\ files' = [files EXCEPT ![File(t)] = Nothing]
                  /\ Finish(t, Done) /\ UNCHANGED staged
    BY <1>6 DEF Remove, Fail, Finish, Goto, Inv, TypeOK
  <1>7. ASSUME NEW t \in Thread, Work(t), ~Rename(t), ~Remove(t)
        PROVE  UNCHANGED files
    BY <1>7 DEF Work, RefuseBody, VetFile, ReadFails, RefuseLoad, AnswerGet, CheckPut, CheckApply,
                CheckDelete, RefuseDir, Stage, StageFails, Staged, RenameFails, Fail, Decide
  <1> QED
    BY <1>1, <1>2, <1>3, <1>4, <1>5, <1>6, <1>7 DEF Next

(* A document that loads stays one that loads until it is deleted, through *)
(* every failure, crash and interleaving.                                  *)
THEOREM DocumentsStayLoadable == Spec => StaysLoadable
  <1> DEFINE Step == oob' = oob =>
               \A p \in Path : Loaded(p) \in Doc => Loaded(p)' \in Doc \cup {"missing"}
  <1>1. ASSUME Inv, [Next]_vars PROVE [Step]_vars
    <2> SUFFICES ASSUME oob' = oob, NEW p \in Path, Loaded(p) \in Doc
                 PROVE  Loaded(p)' \in Doc \cup {"missing"}
      OBVIOUS
    <2>1. files \in [Path -> Content]
      BY <1>1 DEF Inv, TypeOK
    <2>2. CASE UNCHANGED files
      BY <2>2 DEF Loaded
    <2>3. ASSUME NEW t \in Thread, pc[t] = "renaming",
                 files' = [files EXCEPT ![File(t)] = Text[plan[t].new]]
          PROVE  Loaded(p)' \in Doc \cup {"missing"}
      <3>1. CASE p = File(t)
        <4>1. /\ plan[t].new \in Resident /\ Text[plan[t].new] \in Raw
              /\ Parse[Text[plan[t].new]] = plan[t].new
          BY <1>1, <2>3, PlanType
        <4>2. files'[p] = Text[plan[t].new]
          BY <2>1, <2>3, <3>1
        <4> QED
          BY <4>1, <4>2, TornAssumption, DocAssumption DEF Loaded, Load, ParseWith
      <3>2. CASE p # File(t)
        BY <2>1, <2>3, <3>2 DEF Loaded
      <3> QED
        BY <3>1, <3>2
    <2>4. ASSUME NEW t \in Thread, files' = [files EXCEPT ![File(t)] = Nothing]
          PROVE  Loaded(p)' \in Doc \cup {"missing"}
      BY <2>1, <2>4, TornAssumption DEF Loaded, Load
    <2> QED
      BY <1>1, <2>2, <2>3, <2>4, FilesChange
  <1>2. Inv /\ [Next]_vars => [Step]_vars
    BY <1>1
  <1> QED
    BY <1>2, Invariance, PTL DEF Spec, StaysLoadable

(* What a decided mutation read is what its file still holds. *)
Stands(t) ==
  pc[t] \in Landing \cup {"removing"} => Loaded(File(t)) = plan[t].was

LEMMA StandsKept ==
  ASSUME Inv, [Next]_vars, oob' = oob, NEW s \in Thread, Stands(s)
  PROVE  Stands(s)'
  <1> SUFFICES ASSUME pc'[s] \in Landing \cup {"removing"}
               PROVE  Loaded(File(s))' = plan'[s].was
    BY DEF Stands
  <1> DEFINE Same == /\ pc'[s] = pc[s] /\ plan'[s] = plan[s] /\ call'[s] = call[s]
                     /\ files' = files
  <1>1. Same => Loaded(File(s))' = plan'[s].was
    BY DEF Stands, Loaded, File
  <1>2. CASE UNCHANGED vars
    BY <1>1, <1>2 DEF vars
  <1>3. CASE Crash
    BY <1>3 DEF Crash
  <1>4. CASE OutOfBand
    BY <1>4 DEF OutOfBand, Inv, TypeOK
  <1>5. ASSUME NEW t \in Thread, t # s, Invoke(t) \/ RejectEarly(t) \/ Lock(t) \/ Return(t)
        PROVE  Same
    BY <1>5 DEF Invoke, RejectEarly, Reject, Lock, Return, Goto, Inv, TypeOK
  <1>6. ASSUME Invoke(s) \/ RejectEarly(s) \/ Lock(s) \/ Return(s)
        PROVE  FALSE
    BY <1>6 DEF Invoke, RejectEarly, Reject, Lock, Return, Goto, Inv, TypeOK
  <1>7. ASSUME NEW t \in Thread, t # s, Work(t)
        PROVE  FALSE
    <2>1. pc[t] \in Holding
      BY <1>7 DEF Work, RefuseBody, VetFile, ReadFails, RefuseLoad, AnswerGet, CheckPut,
                  CheckApply, CheckDelete, Remove, RefuseDir, Stage, StageFails, Staged,
                  RenameFails, Rename
    <2>2. pc'[s] = pc[s]
      BY <1>7 DEF Work, RefuseBody, VetFile, ReadFails, RefuseLoad, AnswerGet, CheckPut,
                  CheckApply, CheckDelete, Remove, RefuseDir, Stage, StageFails, Staged,
                  RenameFails, Rename, Fail, Finish, Decide, Goto, Inv, TypeOK
    <2> QED
      BY <1>7, <2>1, <2>2 DEF Inv, Locked
  <1>8. ASSUME NEW a, Finish(s, a) PROVE FALSE
    BY <1>8 DEF Finish, Goto, Inv, TypeOK
  <1>9. ASSUME NEW old, NEW new, NEW label, Decide(s, old, new, label), Valid(call[s].name)
        PROVE  Loaded(File(s))' = plan'[s].was
    BY <1>9 DEF Decide, Found, Loaded, File, Inv, TypeOK
  <1>10. CASE CheckPut(s) \/ CheckApply(s) \/ CheckDelete(s)
    <2>1. Valid(call[s].name)
      BY <1>10, DocAssumption
      DEF CheckPut, CheckApply, CheckDelete, Inv, Locked, Unlockable, Found, Unservable
    <2> QED
      BY <1>8, <1>9, <1>10, <2>1 DEF CheckPut, CheckApply, CheckDelete, Fail
  <1>11. CASE VetFile(s)
    BY <1>8, <1>11 DEF VetFile, Fail, Goto, Inv, TypeOK
  <1>12. CASE Stage(s) \/ Staged(s)
    <2>1. pc[s] \in Landing /\ UNCHANGED <<files, plan, call>>
      BY <1>12 DEF Stage, Staged
    <2> QED
      BY <2>1 DEF Stands, Loaded, File
  <1>13. CASE Work(s)
    BY <1>8, <1>10, <1>11, <1>12, <1>13
    DEF Work, RefuseBody, ReadFails, RefuseLoad, AnswerGet, Remove, RefuseDir, StageFails,
        RenameFails, Rename, Fail
  <1> QED
    BY <1>1, <1>2, <1>3, <1>4, <1>5, <1>6, <1>7, <1>13 DEF Next

(* Edits behind the server are only ever counted up. *)
LEMMA OobGrows ==
  ASSUME Inv, [Next]_vars PROVE oob' = 0 => oob = 0 /\ oob' = oob
  <1>1. oob \in Nat
    BY OobAssumption DEF Inv, TypeOK
  <1>2. CASE OutOfBand
    BY <1>1, <1>2 DEF OutOfBand
  <1>3. ASSUME NEW t \in Thread, Work(t) PROVE oob' = oob
    BY <1>3 DEF Work, RefuseBody, VetFile, ReadFails, RefuseLoad, AnswerGet, CheckPut,
                CheckApply, CheckDelete, Remove, RefuseDir, Stage, StageFails, Staged,
                RenameFails, Rename, Fail, Finish, Decide
  <1> QED
    BY <1>1, <1>2, <1>3
    DEF Next, vars, Crash, Invoke, RejectEarly, Reject, Lock, Return

(* While no file is edited out of band, the revision a mutation checked is *)
(* still the one on disk when its write or removal lands.                  *)
THEOREM DecisionsStand == Spec => []DecisionStands
  <1> DEFINE Standing == Inv /\ (oob = 0 => \A t \in Thread : Stands(t))
  <1>1. Init => Standing
    BY Initially DEF Init, Stands
  <1>2. Standing /\ [Next]_vars => Standing'
    BY NextKeeps, StandsKept, OobGrows
  <1>3. Standing => DecisionStands
    BY DEF Inv, Planned, Stands, Decided, DecisionStands
  <1> QED
    BY <1>1, <1>2, <1>3, PTL DEF Spec

(* What the port's steps need of the store's: an answer to an open call.   *)
LEMMA CallOpen ==
  ASSUME Inv, NEW t \in Thread, pc[t] \in Holding \cup {"entered"}
  PROVE  /\ call[t] \in Requests /\ call[t] # Nothing /\ ans[t] = Nothing
         /\ call[t].name \in Name
  BY RequestFields DEF Inv, TypeOK, Open

(* The contract the port is built from is the one the store is read with. *)
LEMMA SameContract ==
  /\ Port!Unservable = Unservable /\ Port!Reason = Reason
  /\ \A n : Port!Valid(n) <=> Valid(n)
  /\ \A why : Port!Refusal(why) = Refusal(why)
  /\ \A r, h, why : Port!TrueReason(r, h, why) <=> TrueReason(r, h, why)
  /\ \A r, h, h2 : Port!Effect(r, h, h2) <=> Effect(r, h, h2)
  /\ \A r, h, h2 : Port!Reply(r, h, h2) = Reply(r, h, h2)
  <1>1. Port!Unservable = Unservable
    BY DEF Port!Unservable, Unservable
  <1>2. Port!Reason = Reason
    BY <1>1 DEF Port!Reason, Reason
  <1>3. \A n : Port!Valid(n) <=> Valid(n)
    BY DEF Port!Valid, Valid
  <1>4. \A why : Port!Refusal(why) = Refusal(why)
    BY DEF Port!Refusal, Refusal
  <1>5. \A r, h : Port!Met(r, h) <=> Met(r, h)
    BY DEF Port!Met, Met
  <1>6. \A r, h, why : Port!TrueReason(r, h, why) <=> TrueReason(r, h, why)
    BY <1>1, <1>5 DEF Port!TrueReason, TrueReason
  <1>7. \A r, h, h2 : Port!Effect(r, h, h2) <=> Effect(r, h, h2)
    BY <1>5 DEF Port!Effect, Effect
  <1>8. \A r, h, h2 : Port!Reply(r, h, h2) = Reply(r, h, h2)
    BY DEF Port!Reply, Reply, Port!Snapped, Snapped, Port!Applied, Applied, Port!Done, Done
  <1> QED
    BY <1>1, <1>2, <1>3, <1>4, <1>6, <1>7, <1>8

LEMMA Stutters ==
  ASSUME UNCHANGED <<files, call, ans>> PROVE UNCHANGED Port!vars
  BY DEF Port!vars, Loaded

LEMMA Refuses ==
  ASSUME Inv, NEW t \in Thread, pc[t] \in Holding \cup {"entered"}, NEW why \in Reason,
         ans' = [ans EXCEPT ![t] = Refusal(why)], UNCHANGED <<files, call>>,
         Valid(call[t].name) => TrueReason(call[t], Loaded(call[t].name), why),
         ~Valid(call[t].name) => why = "missing"
  PROVE  Port!Refuse(t)
  <1>1. Port!Open(t)
    BY CallOpen DEF Port!Open
  <1>2. Valid(call[t].name) =>
          [p \in Path |-> Loaded(p)][call[t].name] = Loaded(call[t].name)
    BY DEF Valid
  <1>3. UNCHANGED [p \in Path |-> Loaded(p)]
    BY DEF Loaded
  <1> QED
    BY <1>1, <1>2, <1>3, SameContract DEF Port!Refuse

LEMMA Succeeds ==
  ASSUME Inv, NEW t \in Thread, pc[t] \in Holding, Valid(call[t].name),
         NEW h2 \in Doc \cup Unservable, Effect(call[t], Loaded(call[t].name), h2),
         \A p \in Path : Loaded(p)' = IF p = call[t].name THEN h2 ELSE Loaded(p),
         ans' = [ans EXCEPT ![t] = Reply(call[t], Loaded(call[t].name), h2)], UNCHANGED call
  PROVE  Port!Succeed(t)
  <1> DEFINE Held == [p \in Path |-> Loaded(p)]
  <1>1. Port!Open(t)
    BY CallOpen DEF Port!Open
  <1>2. Held[call[t].name] = Loaded(call[t].name)
    BY DEF Valid
  <1>3. Held' = [Held EXCEPT ![call[t].name] = h2]
    BY DEF Valid
  <1> QED
    BY <1>1, <1>2, <1>3, SameContract DEF Port!Succeed

(* What a thread under the lock found is what its path serves. *)
LEMMA FoundServed ==
  ASSUME Inv, NEW t \in Thread, pc[t] \in Holding \cup {"entered"}
  PROVE  /\ Valid(call[t].name) => File(t) = call[t].name /\ Found(t) = Loaded(call[t].name)
         /\ ~Valid(call[t].name) => Found(t) = "missing"
         /\ Found(t) \in Doc => Valid(call[t].name)
         /\ Found(t) \in Resident \cup Unservable
  BY CallOpen, FoundType, DocAssumption DEF Inv, Found, Unservable

LEMMA RejectionIsTrue ==
  ASSUME Inv, NEW t \in Thread, RejectEarly(t) PROVE Port!Refuse(t)
  <1>1. pc[t] = "entered" /\ UNCHANGED <<files, call>>
    BY DEF RejectEarly, Reject
  <1>2. CASE Valid(call[t].name)
    <2>1. TrueReason(call[t], Loaded(call[t].name), "precondition")
      BY <1>2 DEF RejectEarly, Unlockable, TrueReason
    <2> QED
      BY <1>1, <1>2, <2>1, Refuses DEF RejectEarly, Reject, Reason
  <1>3. CASE ~Valid(call[t].name)
    BY <1>1, <1>3, Refuses DEF RejectEarly, Reject, Reason, Unservable
  <1> QED
    BY <1>2, <1>3

(* A failure under the lock refuses, if its reason is true. *)
LEMMA FailRefuses ==
  ASSUME Inv, NEW t \in Thread, pc[t] \in Holding, NEW why \in Reason, Fail(t, why),
         Valid(call[t].name) => TrueReason(call[t], Loaded(call[t].name), why),
         ~Valid(call[t].name) => why = "missing"
  PROVE  Port!Refuse(t)
  BY Refuses DEF Fail, Finish

LEMMA LoadingIsTrue ==
  ASSUME Inv, NEW t \in Thread,
         RefuseBody(t) \/ VetFile(t) \/ ReadFails(t) \/ RefuseLoad(t)
  PROVE  Port!Refuse(t) \/ UNCHANGED Port!vars
  <1>1. pc[t] \in Holding /\ ~Unlockable(t)
    BY DEF RefuseBody, VetFile, ReadFails, RefuseLoad, Inv, Locked
  <1>2. CASE RefuseBody(t)
    <2>1. call[t].op = "put" /\ Valid(call[t].name)
      BY <1>1, <1>2 DEF RefuseBody, BodyParses, Unlockable
    <2>2. CASE ParseWith(call[t].body) = "toolarge"
      <3>1. Parse[call[t].body] \in Doc \ Resident
        BY <1>1, <2>1, <2>2, CallOpen, RequestFields, ParseAssumption, DocAssumption
        DEF ParseWith, Unservable
      <3> QED
        BY <1>1, <1>2, <2>1, <2>2, <3>1, FailRefuses
        DEF RefuseBody, TrueReason, Reason, Unservable
    <2>3. CASE ParseWith(call[t].body) # "toolarge"
      <3>1. Parse[call[t].body] = "corrupt"
        BY <1>1, <1>2, <2>1, <2>3, CallOpen, RequestFields, ParseAssumption
        DEF RefuseBody, BodyParses, ParseWith
      <3> QED
        BY <1>1, <1>2, <2>1, <2>3, <3>1, FailRefuses DEF RefuseBody, TrueReason, Reason
    <2> QED
      BY <2>2, <2>3
  <1>3. CASE VetFile(t)
    <2>1. CASE Found(t) = "toolarge"
      <3>1. Valid(call[t].name) /\ Loaded(call[t].name) = "toolarge"
        BY <1>1, <2>1, FoundServed
      <3> QED
        BY <1>1, <1>3, <2>1, <3>1, FailRefuses DEF VetFile, TrueReason, Reason, Unservable
    <2>2. CASE Found(t) # "toolarge"
      BY <1>3, <2>2, Stutters DEF VetFile
    <2> QED
      BY <2>1, <2>2
  <1>4. CASE ReadFails(t)
    BY <1>1, <1>4, FailRefuses DEF ReadFails, TrueReason, Reason
  <1>5. CASE RefuseLoad(t)
    BY <1>1, <1>5, FoundServed, FailRefuses DEF RefuseLoad, TrueReason, Reason
  <1> QED
    BY <1>2, <1>3, <1>4, <1>5

LEMMA CheckingIsTrue ==
  ASSUME Inv, NEW t \in Thread, CheckPut(t) \/ CheckApply(t) \/ CheckDelete(t)
  PROVE  Port!Refuse(t) \/ UNCHANGED Port!vars
  <1> DEFINE h == Loaded(call[t].name)
  <1>1. pc[t] \in Holding /\ ~Unlockable(t)
    BY DEF CheckPut, CheckApply, CheckDelete, Inv, Locked
  <1>2. Valid(call[t].name) /\ Found(t) = h
    BY <1>1, FoundServed DEF CheckPut, CheckApply, CheckDelete, Unlockable
  <1>3. call[t] \in Requests
    BY <1>1, CallOpen
  <1>4. ASSUME NEW why \in Reason, Fail(t, why), TrueReason(call[t], h, why)
        PROVE  Port!Refuse(t)
    BY <1>1, <1>2, <1>4, FailRefuses
  <1>5. ASSUME NEW old, NEW new, NEW label, Decide(t, old, new, label)
        PROVE  UNCHANGED Port!vars
    BY <1>5, Stutters DEF Decide
  <1>6. CASE CheckPut(t)
    <2>1. CASE h \in Doc /\ call[t].expect = "absent" /\ Fail(t, "exists")
      BY <1>4, <1>6, <2>1 DEF CheckPut, TrueReason, Reason
    <2>2. CASE /\ h \in Doc /\ call[t].expect # "absent" /\ call[t].expect # Revision[h]
               /\ Fail(t, "precondition")
      <3>1. call[t].op = "put" /\ call[t].expect \in Rev
        BY <1>1, <1>3, <1>6, <2>2, RequestFields DEF CheckPut, Unlockable, Expect
      <3> QED
        BY <1>4, <2>2, <3>1 DEF TrueReason, Reason
    <2> QED
      BY <1>2, <1>5, <1>6, <2>1, <2>2 DEF CheckPut
  <1>7. CASE CheckApply(t)
    <2>1. call[t].op = "apply" /\ call[t].expect \in Rev /\ h \in Doc
      BY <1>2, <1>3, <1>7, RequestFields DEF CheckApply
    <2>2. CASE call[t].expect # Revision[h] /\ Fail(t, "precondition")
      BY <1>4, <2>1, <2>2 DEF TrueReason, Reason
    <2>3. CASE /\ call[t].expect = Revision[h] /\ Fold[h][call[t].batch] \notin Doc
               /\ Fail(t, Fold[h][call[t].batch])
      <3>1. Fold[h][call[t].batch] \in {"base", "refused"}
        BY <1>3, <2>1, <2>3, RequestFields, FoldAssumption, DocAssumption
      <3>2. TrueReason(call[t], h, Fold[h][call[t].batch])
        BY <2>1, <2>3, <3>1 DEF TrueReason, Met
      <3> QED
        BY <1>4, <2>3, <3>1, <3>2 DEF Reason
    <2> QED
      BY <1>2, <1>5, <1>7, <2>2, <2>3 DEF CheckApply
  <1>8. CASE CheckDelete(t)
    <2>1. call[t].op = "delete" /\ call[t].expect \in Rev /\ h \in Doc
      BY <1>2, <1>3, <1>8, RequestFields DEF CheckDelete
    <2>2. CASE call[t].expect # Revision[h] /\ Fail(t, "precondition")
      BY <1>4, <2>1, <2>2 DEF TrueReason, Reason
    <2> QED
      BY <1>2, <1>5, <1>8, <2>2 DEF CheckDelete
  <1> QED
    BY <1>6, <1>7, <1>8

LEMMA LandingIsTrue ==
  ASSUME Inv, NEW t \in Thread, Stands(t),
         \/ Remove(t) \/ RefuseDir(t) \/ Stage(t) \/ StageFails(t) \/ Staged(t)
         \/ RenameFails(t) \/ Rename(t)
  PROVE  Port!Succeed(t) \/ Port!Refuse(t) \/ UNCHANGED Port!vars
  <1> DEFINE h == Loaded(call[t].name)
  <1>1. /\ pc[t] \in Landing \cup {"removing"} /\ Valid(call[t].name)
        /\ call[t].op \in {"put", "apply", "delete"}
    BY DEF Remove, RefuseDir, Stage, StageFails, Staged, RenameFails, Rename, Inv, Planned
  <1>2. File(t) = call[t].name /\ plan[t].was = h
    BY <1>1, FoundServed DEF Stands
  <1>3. ASSUME Fail(t, "write") PROVE Port!Refuse(t)
    BY <1>1, <1>3, FailRefuses DEF TrueReason, Reason
  <1>4. CASE Remove(t)
    <2>1. CASE files' = [files EXCEPT ![File(t)] = Nothing] /\ Finish(t, Done)
      <3>1. call[t].op = "delete" /\ Effect(call[t], h, "missing")
        BY <1>2, <1>4 DEF Remove, Inv, Planned, Effect
      <3>2. Reply(call[t], h, "missing") = Done
        BY <3>1 DEF Reply
      <3>3. \A p \in Path : Loaded(p)' = IF p = call[t].name THEN "missing" ELSE Loaded(p)
        BY <1>2, <2>1, TornAssumption DEF Loaded, Load, Inv, TypeOK
      <3> QED
        BY <1>1, <2>1, <3>1, <3>2, <3>3, Succeeds DEF Finish, Unservable
    <2> QED
      BY <1>3, <1>4, <2>1 DEF Remove
  <1>5. CASE RefuseDir(t)
    <2>1. h = "missing"
      BY <1>2, <1>5, TornAssumption DEF RefuseDir, Loaded, Load
    <2>2. CASE Fail(t, "missing")
      BY <1>1, <2>1, <2>2, FailRefuses DEF TrueReason, Reason, Unservable
    <2> QED
      BY <1>3, <1>5, <2>2 DEF RefuseDir
  <1>6. CASE Stage(t) \/ Staged(t)
    BY <1>6, Stutters DEF Stage, Staged
  <1>7. CASE StageFails(t)
    BY <1>3, <1>7 DEF StageFails
  <1>8. CASE RenameFails(t)
    <2>1. UNCHANGED <<files, call>> /\ ans' = [ans EXCEPT ![t] = Refusal("write")]
      BY <1>8 DEF RenameFails, Finish
    <2> QED
      BY <1>1, <2>1, Refuses DEF TrueReason, Reason
  <1>9. CASE Rename(t)
    <2> DEFINE h2 == plan[t].new
    <2>1. pc[t] = "renaming" /\ pc[t] \in Landing
      BY <1>9 DEF Rename
    <2>2. h2 \in Resident /\ h2 \in Doc /\ Text[h2] \in Raw /\ Parse[Text[h2]] = h2
      BY <2>1, PlanType, DocAssumption
    <2>3. Effect(call[t], h, h2)
      BY <1>2, <2>1 DEF Inv, Planned
    <2>4. Landed(t) = Reply(call[t], h, h2)
      <3>1. call[t].op \in {"put", "apply"} /\ (call[t].op = "apply" => plan[t].old = h)
        BY <1>2, <2>1 DEF Inv, Planned
      <3> QED
        BY <1>2, <3>1 DEF Landed, Reply
    <2>5. files' = [files EXCEPT ![File(t)] = Text[h2]]
      BY <1>9, <2>1 DEF Rename, Inv, Planned
    <2>6. \A p \in Path : Loaded(p)' = IF p = call[t].name THEN h2 ELSE Loaded(p)
      BY <1>2, <2>2, <2>5, TornAssumption, DocAssumption
      DEF Loaded, Load, ParseWith, Inv, TypeOK
    <2> QED
      BY <1>1, <1>9, <2>2, <2>3, <2>4, <2>6, Succeeds DEF Rename, Finish
  <1> QED
    BY <1>4, <1>5, <1>6, <1>7, <1>8, <1>9

LEMMA GetIsTrue ==
  ASSUME Inv, NEW t \in Thread, AnswerGet(t) PROVE Port!Succeed(t)
  <1> DEFINE h == Loaded(call[t].name)
  <1>1. pc[t] \in Holding /\ Found(t) \in Doc
    BY DEF AnswerGet
  <1>2. Valid(call[t].name) /\ Found(t) = h
    BY <1>1, FoundServed
  <1>3. Effect(call[t], h, h) /\ Reply(call[t], h, h) = Snapped(h, FALSE)
    BY <1>1, <1>2 DEF AnswerGet, Effect, Reply
  <1>4. \A p \in Path : Loaded(p)' = IF p = call[t].name THEN h ELSE Loaded(p)
    BY DEF AnswerGet, Loaded
  <1> QED
    BY <1>1, <1>2, <1>3, <1>4, Succeeds DEF AnswerGet, Finish

LEMMA StepIsPortStep ==
  ASSUME Inv, [Next]_vars, oob' = oob
  PROVE  \/ [Port!Next]_(Port!vars)
         \/ \E t \in Thread : Overtaken(t) /\ Work(t)
  <1>1. CASE UNCHANGED vars
    BY <1>1, Stutters DEF vars
  <1>2. CASE Crash
    <2>1. UNCHANGED [p \in Path |-> Loaded(p)]
      BY <1>2 DEF Crash, Loaded
    <2>2. Port!Crash
      BY <1>2, <2>1 DEF Crash, Port!Crash
    <2> QED
      BY <2>2 DEF Port!Next
  <1>3. CASE OutOfBand
    BY <1>3 DEF OutOfBand, Inv, TypeOK
  <1>4. ASSUME NEW t \in Thread, Invoke(t) PROVE Port!Invoke(t)
    <2>1. UNCHANGED [p \in Path |-> Loaded(p)]
      BY <1>4 DEF Invoke, Loaded
    <2> QED
      BY <1>4, <2>1 DEF Invoke, Port!Invoke, Inv, Open
  <1>5. ASSUME NEW t \in Thread, Return(t) PROVE Port!Return(t)
    <2>1. UNCHANGED [p \in Path |-> Loaded(p)]
      BY <1>5 DEF Return, Loaded
    <2> QED
      BY <1>5, <2>1 DEF Return, Port!Return, Inv, Open
  <1>6. ASSUME NEW t \in Thread, Lock(t) PROVE UNCHANGED Port!vars
    BY <1>6, Stutters DEF Lock
  <1>7. ASSUME NEW t \in Thread, Work(t), ~Overtaken(t)
        PROVE  Port!Succeed(t) \/ Port!Refuse(t) \/ UNCHANGED Port!vars
    <2>1. Stands(t)
      BY <1>7 DEF Overtaken, Decided, Stands
    <2> QED
      BY <1>7, <2>1, LoadingIsTrue, CheckingIsTrue, LandingIsTrue, GetIsTrue DEF Work
  <1> QED
    BY <1>1, <1>2, <1>3, <1>4, <1>5, <1>6, <1>7, RejectionIsTrue DEF Next, Port!Next

(* The store is a document port: every call takes effect at one instant,   *)
(* on the state its precondition names, and a refusal is true and changes  *)
(* nothing, save for a call that lands on a file edited since it looked    *)
(* (document.go:68-89, fs.go:113-127).                                     *)
THEOREM ImplementsPort == Spec => IsDocumentPort
  <1> DEFINE Step == oob' = oob => \/ [Port!Next]_(Port!vars)
                                  \/ \E t \in Thread : Overtaken(t) /\ Work(t)
  <1>1. Init => Port!Init
    <2> SUFFICES ASSUME Init PROVE Port!Init
      OBVIOUS
    <2>1. files \in [Path -> Content]
      BY DEF Init, Content
    <2>2. [p \in Path |-> Loaded(p)] \in [Path -> Doc \cup Unservable]
      BY <2>1, LoadedType, DocAssumption
    <2> QED
      BY <2>2, SameContract DEF Init, Port!Init
  <1>2. Inv /\ [Next]_vars => [Step]_vars
    BY StepIsPortStep
  <1> QED
    BY <1>1, <1>2, Invariance, PTL DEF Spec, IsDocumentPort
=============================================================================
