------------------------------ MODULE Documents ------------------------------
(***************************************************************************)
(* The vocabulary every module shares: names and the files they resolve    *)
(* to, parsed documents and their revisions, edit batches, and the four    *)
(* requests of a document port (document/document.go).  The engine         *)
(* (go-tsvsheet: parse, serialize, revise, fold) is outside the repository *)
(* and is given by constant functions with the laws the code relies on.    *)
(***************************************************************************)

CONSTANTS
  Name,       \* names a caller may state, clean or not
  Path,       \* the names document.Validate accepts
  Target,     \* [Name -> Path]: the file the filesystem resolves a name to
  Doc,        \* parsed documents
  Resident,   \* the documents within the configured cell budget
  Rev,        \* revisions a caller may state
  Revision,   \* [Doc -> Rev]: the content address
  Raw,        \* byte strings a file or a body may hold
  Parse,      \* [Raw -> Doc \cup {"corrupt"}]
  Text,       \* [Doc -> Raw]: the canonical serialization
  Batch,      \* edit batches
  Fold,       \* [Doc -> [Batch -> Resident \cup {"base", "refused"}]]
  Requests,   \* the requests callers make, a bound on Request
  Nothing     \* no file, no request, no answer, no lock holder

(* What a load reports in place of a document. *)
Unservable == {"missing", "corrupt", "toolarge"}

ASSUME NameAssumption ==
  /\ Path \subseteq Name
  /\ Target \in [Name -> Path]
  /\ \A p \in Path : Target[p] = p

ASSUME DocAssumption ==
  /\ Resident \subseteq Doc
  /\ Doc \cap (Unservable \cup {"base", "refused"}) = {}
  /\ Nothing \notin Doc \cup Raw

(* A revision is a content address: no two documents share one. *)
ASSUME RevisionAssumption ==
  /\ Revision \in [Doc -> Rev]
  /\ \A d, e \in Doc : Revision[d] = Revision[e] => d = e

(* Serializing and parsing again yields the same document. *)
ASSUME ParseAssumption ==
  /\ Parse \in [Raw -> Doc \cup {"corrupt"}]
  /\ Text \in [Doc -> Raw]
  /\ \A d \in Doc : Parse[Text[d]] = d

(* A fold under the limits yields a document within budget or refuses. *)
ASSUME FoldAssumption ==
  Fold \in [Doc -> [Batch -> Resident \cup {"base", "refused"}]]

ASSUME ExpectAssumption == "none" \notin Rev /\ "absent" \notin Rev

(* document.Expect: a revision, absence, or the zero value. *)
Expect == Rev \cup {"absent", "none"}

(* The calls of document.Port. *)
Request ==
  [op : {"get"}, name : Name]
    \cup [op : {"put"}, name : Name, body : Raw, expect : Expect]
    \cup [op : {"apply"}, name : Name, batch : Batch, expect : Rev]
    \cup [op : {"delete"}, name : Name, expect : Rev]

ASSUME RequestAssumption == Requests \subseteq Request

(* document.Validate, kept as membership: which strings are clean is data. *)
Valid(n) == n \in Path

(* The bounded parse: an over-budget document refuses. *)
ParseWith(raw) == IF Parse[raw] \in Doc \ Resident THEN "toolarge" ELSE Parse[raw]

(* What reading a file's content yields: a document or why there is none. *)
Load(file) == IF file = Nothing THEN "missing" ELSE ParseWith(file)

Reason == Unservable \cup {"exists", "precondition", "syntax", "base", "refused", "read", "write"}

(* What a call returns: the Snapshot, Applied and Created results, or an error. *)
Answer ==
  [result : {"ok"} \cup Reason, old : Doc \cup {Nothing}, new : Doc \cup {Nothing}, created : BOOLEAN]

Refusal(why) == [result |-> why, old |-> Nothing, new |-> Nothing, created |-> FALSE]
Snapped(new, created) == [result |-> "ok", old |-> Nothing, new |-> new, created |-> created]
Applied(old, new) == [result |-> "ok", old |-> old, new |-> new, created |-> FALSE]
Done == [result |-> "ok", old |-> Nothing, new |-> Nothing, created |-> FALSE]

ASSUME NothingAssumption == Nothing \notin Request \cup Answer

-----------------------------------------------------------------------------
(* The contract of one call on a valid name (document.Port), for the state  *)
(* h its document is in: h2 is the state it leaves.                         *)

(* The precondition r states holds of the served state h. *)
Met(r, h) ==
  \/ r.expect = "absent" /\ h = "missing"
  \/ h \in Doc /\ r.expect = Revision[h]

(* The call r on state h may leave h2. *)
Effect(r, h, h2) ==
  \/ r.op = "get" /\ h \in Doc /\ h2 = h
  \/ r.op = "put" /\ Met(r, h) /\ h2 = Parse[r.body] /\ h2 \in Resident
  \/ r.op = "apply" /\ Met(r, h) /\ h2 = Fold[h][r.batch] /\ h2 \in Resident
  \/ r.op = "delete" /\ Met(r, h) /\ h2 = "missing"

(* What it then answers. *)
Reply(r, h, h2) ==
  CASE r.op = "get" -> Snapped(h, FALSE)
    [] r.op = "put" -> Snapped(h2, h = "missing")
    [] r.op = "apply" -> Applied(h, h2)
    [] r.op = "delete" -> Done

(* The reasons that are true of request r on a valid name in state h. *)
TrueReason(r, h, why) ==
  \/ why \in Unservable /\ h = why
  \/ why = "precondition" /\ r.op = "put" /\ r.expect = "none"
  \/ why = "precondition" /\ r.op # "get" /\ h \in Doc /\ r.expect \in Rev \ {Revision[h]}
  \/ why = "exists" /\ r.op = "put" /\ r.expect = "absent" /\ h \in Doc
  \/ why = "syntax" /\ r.op = "put" /\ Parse[r.body] = "corrupt"
  \/ why = "toolarge" /\ r.op = "put" /\ Parse[r.body] \in Doc \ Resident
  \/ why \in {"base", "refused"} /\ r.op = "apply" /\ Met(r, h) /\ Fold[h][r.batch] = why
  \/ why = "read"
  \/ why = "write" /\ r.op # "get"
=============================================================================
