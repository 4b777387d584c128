-------------------------------- MODULE Store --------------------------------
(***************************************************************************)
(* The embedded port (store/store.go, store/fs.go): one mutex, files under *)
(* a confined root, writes staged beside their target and renamed over it. *)
(* One step per filesystem call; each may fail, the process may crash      *)
(* between any two, and files may be edited behind the server's back.      *)
(***************************************************************************)
EXTENDS Documents, Naturals

CONSTANTS
  Thread,   \* concurrent calls
  MaxOob    \* bound on out-of-band edits

ASSUME ThreadAssumption == Nothing \notin Thread
ASSUME OobAssumption == MaxOob \in Nat

(* A staged file whose write has begun and not finished. *)
Torn == "torn"

ASSUME TornAssumption == Torn \notin Raw \cup {Nothing}

VARIABLES
  files,    \* [Path -> Raw \cup {Nothing, Torn}]: the documents on disk
  staged,   \* the same, for the staging name beside each path
  mu,       \* the thread holding Store.mu
  pc,       \* where each call stands
  call,     \* its request
  ans,      \* its answer
  plan,     \* the states a mutation read and decided to leave
  oob       \* out-of-band edits so far

vars == <<files, staged, mu, pc, call, ans, plan, oob>>

Content == Raw \cup {Nothing, Torn}
NoPlan == [old |-> Nothing, new |-> Nothing, was |-> "missing"]

(* What loading path p yields; a torn file is corrupt. *)
Loaded(p) == IF files[p] = Torn THEN "corrupt" ELSE Load(files[p])

Init ==
  /\ files \in [Path -> Raw \cup {Nothing}]
  /\ staged = [p \in Path |-> Nothing]
  /\ mu = Nothing
  /\ pc = [t \in Thread |-> "idle"]
  /\ call = [t \in Thread |-> Nothing]
  /\ ans = [t \in Thread |-> Nothing]
  /\ plan = [t \in Thread |-> NoPlan]
  /\ oob = 0

File(t) == Target[call[t].name]

Goto(t, label) == pc' = [pc EXCEPT ![t] = label]

Invoke(t) ==
  /\ pc[t] = "idle"
  /\ \E r \in Requests : call' = [call EXCEPT ![t] = r]
  /\ Goto(t, "entered")
  /\ UNCHANGED <<files, staged, mu, ans, plan, oob>>

(* Answer without ever having taken the lock. *)
Reject(t, why) ==
  /\ ans' = [ans EXCEPT ![t] = Refusal(why)]
  /\ Goto(t, "answered")
  /\ UNCHANGED <<files, staged, mu, call, plan, oob>>

(* Slip: Put leaves the name to load, which a create takes for absence. *)
UnlockableByExpect(t) ==
  \/ call[t].op = "delete" /\ ~Valid(call[t].name)
  \/ call[t].op = "put" /\ call[t].expect = "none"

(* Put and Delete validate the name before the lock, Put its expectation too. *)
Unlockable(t) ==
  \/ call[t].op \in {"put", "delete"} /\ ~Valid(call[t].name)
  \/ call[t].op = "put" /\ call[t].expect = "none"

RejectEarly(t) ==
  /\ pc[t] = "entered"
  /\ Unlockable(t)
  /\ Reject(t, IF Valid(call[t].name) THEN "precondition" ELSE "missing")

Lock(t) ==
  /\ pc[t] = "entered"
  /\ ~Unlockable(t)
  /\ mu = Nothing
  /\ mu' = t
  /\ Goto(t, "locked")
  /\ UNCHANGED <<files, staged, call, ans, plan, oob>>

(* The deferred unlock and the return are one with the answer. *)
Finish(t, a) ==
  /\ ans' = [ans EXCEPT ![t] = a]
  /\ Goto(t, "answered")
  /\ mu' = Nothing
  /\ plan' = [plan EXCEPT ![t] = NoPlan]
  /\ UNCHANGED <<call, oob>>

(* Slip: a refusal returns without unlocking. *)
FailHolding(t, why) ==
  /\ ans' = [ans EXCEPT ![t] = Refusal(why)]
  /\ Goto(t, "answered")
  /\ UNCHANGED <<files, staged, mu, call, plan, oob>>

Fail(t, why) == Finish(t, Refusal(why)) /\ UNCHANGED <<files, staged>>

(* Put parses its body before it looks at the file. *)
BodyParses(t) == call[t].op = "put" => ParseWith(call[t].body) \in Doc

RefuseBody(t) ==
  /\ pc[t] = "locked"
  /\ ~BodyParses(t)
  /\ Fail(t, IF ParseWith(call[t].body) = "toolarge" THEN "toolarge" ELSE "syntax")

(* What load reports: it validates the name again, and Get and Apply rely *)
(* on that alone.                                                         *)
Found(t) == IF Valid(call[t].name) THEN Loaded(File(t)) ELSE "missing"

(* The census before the file is buffered; it judges nothing but size. *)
VetFile(t) ==
  /\ pc[t] = "locked"
  /\ BodyParses(t)
  /\ IF Found(t) = "toolarge"
     THEN Fail(t, "toolarge")
     ELSE Goto(t, "vetted") /\ UNCHANGED <<files, staged, mu, call, ans, plan, oob>>

ReadFails(t) ==
  /\ pc[t] = "vetted"
  /\ Valid(call[t].name)
  /\ Fail(t, "read")

(* A put is not refused for want of a file until its expectation is known. *)
RefuseLoad(t) ==
  /\ pc[t] = "vetted"
  /\ Found(t) \in Unservable
  /\ ~(call[t].op = "put" /\ call[t].expect = "absent" /\ Found(t) = "missing")
  /\ Fail(t, Found(t))

(* Slip: the census is trusted and the read parsed without the budget. *)
AnswerGetUnbounded(t) ==
  /\ pc[t] = "vetted"
  /\ call[t].op = "get"
  /\ Found(t) \in Doc \cup {"toolarge"}
  /\ Finish(t, Snapped(Parse[files[File(t)]], FALSE))
  /\ UNCHANGED <<files, staged>>

AnswerGet(t) ==
  /\ pc[t] = "vetted"
  /\ call[t].op = "get"
  /\ Found(t) \in Doc
  /\ Finish(t, Snapped(Found(t), FALSE))
  /\ UNCHANGED <<files, staged>>

(* Slip: the lock covers the check and not the write. *)
DecideUnlocked(t, old, new, label) ==
  /\ plan' = [plan EXCEPT ![t] = [old |-> old, new |-> new, was |-> Found(t)]]
  /\ Goto(t, label)
  /\ mu' = Nothing
  /\ UNCHANGED <<files, staged, call, ans, oob>>

(* Keep what was read and what is to be stored; next comes step label. *)
Decide(t, old, new, label) ==
  /\ plan' = [plan EXCEPT ![t] = [old |-> old, new |-> new, was |-> Found(t)]]
  /\ Goto(t, label)
  /\ UNCHANGED <<files, staged, mu, call, ans, oob>>

(* Slip: a put stores its body as sent. *)
CheckPutVerbatim(t) ==
  /\ pc[t] = "vetted"
  /\ call[t].op = "put"
  /\ Found(t) = "missing" /\ call[t].expect = "absent"
  /\ Decide(t, Nothing, call[t].body, "writing")

(* check: a create meets a document, a replacement another revision. *)
CheckPut(t) ==
  LET h == Found(t) IN
  /\ pc[t] = "vetted"
  /\ call[t].op = "put"
  /\ h \in Doc \/ (h = "missing" /\ call[t].expect = "absent")
  /\ IF h \in Doc /\ call[t].expect = "absent" THEN Fail(t, "exists")
     ELSE IF h \in Doc /\ call[t].expect # Revision[h] THEN Fail(t, "precondition")
     ELSE Decide(t, Nothing, ParseWith(call[t].body), "writing")

CheckApply(t) ==
  LET h == Found(t) IN
  /\ pc[t] = "vetted"
  /\ call[t].op = "apply"
  /\ h \in Doc
  /\ IF call[t].expect # Revision[h] THEN Fail(t, "precondition")
     ELSE IF Fold[h][call[t].batch] \notin Doc THEN Fail(t, Fold[h][call[t].batch])
     ELSE Decide(t, h, Fold[h][call[t].batch], "writing")

CheckDelete(t) ==
  LET h == Found(t) IN
  /\ pc[t] = "vetted"
  /\ call[t].op = "delete"
  /\ h \in Doc
  /\ IF call[t].expect # Revision[h] THEN Fail(t, "precondition")
     ELSE Decide(t, Nothing, Nothing, "removing")

Remove(t) ==
  /\ pc[t] = "removing"
  /\ \/ Fail(t, "write")
     \/ /\ files' = [files EXCEPT ![File(t)] = Nothing]
        /\ Finish(t, Done)
        /\ UNCHANGED staged

(* A parent directory can be refused only while no file is in it. *)
RefuseDir(t) ==
  /\ pc[t] = "writing"
  /\ files[File(t)] = Nothing
  /\ \E why \in {"missing", "write"} : Fail(t, why)

(* Slip: the write goes straight to the document. *)
StageInPlace(t) ==
  /\ pc[t] = "writing"
  /\ files' = [files EXCEPT ![File(t)] = Torn]
  /\ Goto(t, "staging")
  /\ UNCHANGED <<staged, mu, call, ans, plan, oob>>

(* The staging file is opened and truncated. *)
Stage(t) ==
  /\ pc[t] = "writing"
  /\ staged' = [staged EXCEPT ![File(t)] = Torn]
  /\ Goto(t, "staging")
  /\ UNCHANGED <<files, mu, call, ans, plan, oob>>

(* The staging file cannot be opened, or its write stops short. *)
StageFails(t) ==
  /\ pc[t] \in {"writing", "staging"}
  /\ Fail(t, "write")

Staged(t) ==
  /\ pc[t] = "staging"
  /\ staged' = [staged EXCEPT ![File(t)] = Text[plan[t].new]]
  /\ Goto(t, "renaming")
  /\ UNCHANGED <<files, mu, call, ans, plan, oob>>

RenameFails(t) ==
  /\ pc[t] = "renaming"
  /\ \E left \in {Nothing, staged[File(t)]} : staged' = [staged EXCEPT ![File(t)] = left]
  /\ Finish(t, Refusal("write"))
  /\ UNCHANGED files

(* What a landed write returns: Put the stored snapshot, Apply both states. *)
Landed(t) ==
  IF call[t].op = "put" THEN Snapped(plan[t].new, plan[t].was = "missing")
                        ELSE Applied(plan[t].old, plan[t].new)

Rename(t) ==
  /\ pc[t] = "renaming"
  /\ files' = [files EXCEPT ![File(t)] = staged[File(t)]]
  /\ staged' = [staged EXCEPT ![File(t)] = Nothing]
  /\ Finish(t, Landed(t))

Return(t) ==
  /\ pc[t] = "answered"
  /\ Goto(t, "idle")
  /\ call' = [call EXCEPT ![t] = Nothing]
  /\ ans' = [ans EXCEPT ![t] = Nothing]
  /\ UNCHANGED <<files, staged, mu, plan, oob>>

(* The process dies and a new one opens the same root. *)
Crash ==
  /\ mu' = Nothing
  /\ pc' = [t \in Thread |-> "idle"]
  /\ call' = [t \in Thread |-> Nothing]
  /\ ans' = [t \in Thread |-> Nothing]
  /\ plan' = [t \in Thread |-> NoPlan]
  /\ UNCHANGED <<files, staged, oob>>

(* A file is replaced, grown or removed without going through the store. *)
OutOfBand ==
  /\ oob < MaxOob
  /\ \E p \in Path, f \in Raw \cup {Nothing} : files' = [files EXCEPT ![p] = f]
  /\ oob' = oob + 1
  /\ UNCHANGED <<staged, mu, pc, call, ans, plan>>

(* Everything a call does once it has asked for the lock. *)
Work(t) ==
  \/ RefuseBody(t) \/ VetFile(t)
  \/ ReadFails(t) \/ RefuseLoad(t) \/ AnswerGet(t)
  \/ CheckPut(t) \/ CheckApply(t) \/ CheckDelete(t)
  \/ Remove(t) \/ RefuseDir(t) \/ Stage(t) \/ StageFails(t) \/ Staged(t)
  \/ RenameFails(t) \/ Rename(t)

Next ==
  \/ \E t \in Thread : Invoke(t) \/ RejectEarly(t) \/ Lock(t) \/ Work(t) \/ Return(t)
  \/ Crash
  \/ OutOfBand

Spec == Init /\ [][Next]_vars

(* Calls run to their answer; sync.Mutex hands itself to a waiter that     *)
(* has starved, so a thread that keeps asking is served.                   *)
FairSpec ==
  /\ Spec
  /\ \A t \in Thread : WF_vars(RejectEarly(t) \/ Work(t)) /\ SF_vars(Lock(t))
------------------------------------------------------------------------------
(* Every variable holds a value of its kind. *)
TypeOK ==
  /\ files \in [Path -> Content]
  /\ staged \in [Path -> Content]
  /\ mu \in Thread \cup {Nothing}
  /\ pc \in [Thread -> {"idle", "entered", "locked", "vetted", "writing", "staging",
                        "renaming", "removing", "answered"}]
  /\ call \in [Thread -> Requests \cup {Nothing}]
  /\ ans \in [Thread -> Answer \cup {Nothing}]
  /\ plan \in [Thread -> [old : Doc \cup {Nothing}, new : Doc \cup {Nothing},
                          was : Doc \cup Unservable]]
  /\ oob \in 0..MaxOob

(* The steps between a mutation's check and its landing. *)
Decided(t) == pc[t] \in {"writing", "staging", "renaming", "removing"}

(* While nobody edits files behind the server, what a mutation read stays   *)
(* what is on disk until it lands, so its precondition still holds then;    *)
(* and a staged file ready for renaming is always the whole text to be      *)
(* stored (store.go:76-91, :107-121, :132-141).                             *)
DecisionStands ==
  \A t \in Thread : Decided(t) =>
    /\ oob = 0 => Loaded(File(t)) = plan[t].was
    /\ pc[t] = "renaming" => staged[File(t)] = Text[plan[t].new]

(* A document that loads is never replaced by one that does not, whatever  *)
(* a caller sends, whichever call fails and wherever the process dies      *)
(* (store.go:80, fs.go:113-127): no torn, corrupt or over-budget file.     *)
StaysLoadable ==
  [][oob' = oob => \A p \in Path : Loaded(p) \in Doc => Loaded(p)' \in Doc \cup {"missing"}]_vars

(* Nothing over the cell budget is ever handed out or kept from a read,    *)
(* even when the file grows between the census and the read (fs.go:45-49). *)
Bounded(t) ==
  /\ ans[t] # Nothing => {ans[t].old, ans[t].new} \subseteq Resident \cup {Nothing}
  /\ {plan[t].old, plan[t].new} \subseteq Resident \cup {Nothing}

BudgetHeld == \A t \in Thread : Bounded(t)

(* Every call that reached the store gets its answer, or dies with the     *)
(* process (the lock is released on every path out).                       *)
Answered == \A t \in Thread : pc[t] = "entered" ~> pc[t] \in {"answered", "idle"}

Port == INSTANCE DocumentPort WITH
  Caller <- Thread, held <- [p \in Path |-> Loaded(p)], call <- call, ans <- ans

(* An edit reached t's file after t had checked it and before t landed. *)
Overtaken(t) == Decided(t) /\ Loaded(File(t)) # plan[t].was

(* The store is a document port (document.go:68-89) even while files are   *)
(* edited behind it: every call takes effect at one instant, on the state  *)
(* its precondition names, and the edits themselves and the landing of a   *)
(* call that one of them overtook are the only steps a port would not make *)
(* (fs.go:113-127 does not look at the file again).                        *)
IsDocumentPort ==
  /\ Port!Init
  /\ [][oob' = oob => \/ [Port!Next]_(Port!vars)
                      \/ \E t \in Thread : Overtaken(t) /\ Work(t)]_vars
=============================================================================
