---------------------------- MODULE Replication ----------------------------
(***************************************************************************)
(* Replicas that exchange RDX documents: what Merge, Normalize and the ID  *)
(* arithmetic of id.go promise together.  A replica writes documents,      *)
(* re-stamps what it has, and merges what reaches it, in any order, any    *)
(* number of times and in any grouping.  Replicas and their network are    *)
(* the callers' side of the library.                                       *)
(***************************************************************************)
EXTENDS RdxMerge

CONSTANTS
  Drafts,      \* Drafts[r]: the documents replica r may write, as parsed
  MaxUpdates,  \* bound: updates written
  MaxBatch,    \* bound: updates merged in one call
  Places       \* bound: the elements that are edited, <<j, k>> for element k of
               \* the container at spot j

Replicas == DOMAIN Drafts

VARIABLES
  log,    \* the updates written, in the order of writing
  doc,    \* doc[r]: the document replica r holds
  seen    \* seen[r]: the updates it has merged, as indices of log

vars == <<log, doc, seen>>

Init ==
  /\ log = <<>>
  /\ doc = [r \in Replicas |-> <<>>]
  /\ seen = [r \in Replicas |-> {}]

\* r merges update u of its own into its document
Publish(r, u) ==
  /\ Len(log) < MaxUpdates
  /\ log' = Append(log, u)
  /\ doc' = [doc EXCEPT ![r] = Merge(<<@, u>>)]
  /\ seen' = [seen EXCEPT ![r] = @ \cup {Len(log) + 1}]

\* a document is parsed, which normalizes it (ParseNormalizeJDR), and merged
Write(r, draft) == Publish(r, Normalize(draft))

\* delete, undelete
Toggled(id) == IF IsLive(id) THEN Removed(id) ELSE Recovered(id)

\* element k of the container at spot j of r's document gets a new ID; what
\* precedes the container goes along to keep its spot
Restamp(r, j, k, id) ==
  /\ j \in DOMAIN doc[r]
  /\ IsPLEX(doc[r][j].lit)
  /\ k \in DOMAIN doc[r][j].val
  /\ LET el == [doc[r][j].val[k] EXCEPT !.id = id]
     IN  Publish(r, SubSeq(doc[r], 1, j - 1) \o <<[doc[r][j] EXCEPT !.val = <<el>>]>>)

IDAt(r, j, k) == doc[r][j].val[k].id
Toggle(r, j, k) == Restamp(r, j, k, Toggled(IDAt(r, j, k)))
Replace(r, j, k) == Restamp(r, j, k, Replaced(IDAt(r, j, k)))

\* a batch of updates, some perhaps merged before, in some order, with r's
\* document somewhere among them
Deliver(r, batch, at) ==
  /\ doc' = [doc EXCEPT ![r] =
       LET us == [k \in DOMAIN batch |-> log[batch[k]]]
       IN  Merge(SubSeq(us, 1, at) \o <<@>> \o SubSeq(us, at + 1, Len(us)))]
  /\ seen' = [seen EXCEPT ![r] = @ \cup Range(batch)]
  /\ UNCHANGED log

\* r merges the whole document of another replica
Sync(r, q) ==
  /\ doc' = [doc EXCEPT ![r] = Merge(<<@, doc[q]>>)]
  /\ seen' = [seen EXCEPT ![r] = @ \cup seen[q]]
  /\ UNCHANGED log

Next ==
  \E r \in Replicas :
    \/ \E draft \in Drafts[r] : Write(r, draft)
    \/ \E p \in Places : Toggle(r, p[1], p[2]) \/ Replace(r, p[1], p[2])
    \/ \E batch \in BoundedSeq(DOMAIN log, MaxBatch) :
         \E at \in 0..Len(batch) : batch # <<>> /\ Deliver(r, batch, at)
    \/ \E q \in Replicas \ {r} : Sync(r, q)

Spec == Init /\ [][Next]_vars
-----------------------------------------------------------------------------
(* Properties *)

\* What a replica holds depends only on which updates it has merged: not on
\* their order, their grouping, or how often each of them came.
SameAsSeen ==
  \A r \in Replicas :
    doc[r] = Merge([k \in 1..Cardinality(seen[r]) |-> log[SetToSeq(seen[r])[k]]])

\* Replicas that have merged the same updates hold the same document.
Converged == \A r, q \in Replicas : seen[r] = seen[q] => doc[r] = doc[q]

\* Sets and multiplexed containers stay in strict order, all the way down, so
\* that they can be merged again and searched.
StaysOrdered == \A r \in Replicas : Ordered(doc[r], "P")

\* Merging what was merged before changes nothing.
Immune ==
  [][\A r \in Replicas : seen'[r] = seen[r] => doc'[r] = doc[r]]_vars
============================================================================
