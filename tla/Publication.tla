----------------------------- MODULE Publication -----------------------------
(***************************************************************************)
(* publish_result (publication.py): a payload of replay-checked solutions   *)
(* is submitted in parts by a client process each, and the receipts of all  *)
(* parts are polled together, against one deadline.  The results service    *)
(* settles submissions in its own time.                                     *)
(***************************************************************************)
EXTENDS Naturals, FiniteSets

CONSTANTS
    Parts,         \* the chunks of at most 100 envelopes, 1..n
    Origins        \* endpoints a client may be talking to

PublicationAssumption ==
    /\ IsFiniteSet(Parts) /\ "none" \notin Origins
    /\ \A i \in Parts : i \in Nat /\ i > 0 /\ 1..i \subseteq Parts

Settled == {"published", "duplicate", "rejected"}
Known == {"queued"} \cup Settled

VARIABLES
    pc,
    replays,       \* do all solutions replay; is there any
    part,          \* the part being submitted
    submitted,     \* the parts whose client was started
    endpoint,      \* endpoint_origin
    late,          \* the deadline has passed
    service,       \* service[i]: the state of part i at the results service
    origin,        \* the endpoint part i was sent to
    manifest,      \* the receipts file of part i: its last known state
    combined,      \* the poll manifest
    result

vars == <<pc, replays, part, submitted, endpoint, late, service, origin, manifest,
          combined, result>>

NoResult == [status |-> "none", receipts |-> {}]

TypeOK ==
    /\ pc \in {"prepare", "submit", "wait", "combine", "poll", "sync", "done"}
    /\ replays \in {"none", "all", "some"} /\ part \in Nat
    /\ submitted \subseteq Parts
    /\ endpoint \in Origins \cup {"none"} /\ late \in BOOLEAN
    /\ service \in [Parts -> Known \cup {"absent"}]
    /\ origin \in [Parts -> Origins \cup {"none"}]
    /\ manifest \in [Parts -> Known \cup {"absent"}]
    /\ combined \in [Parts -> Known \cup {"absent"}]
    /\ result.status \in {"none", "nothing", "raised", "pending_or_failed", "published"}
    /\ result.receipts \subseteq Parts
    /\ pc \in {"prepare", "submit"} => submitted = 1..(part - 1)

Init ==
    /\ pc = "prepare" /\ replays \in {"none", "all", "some"} /\ part = 1
    /\ submitted = {} /\ endpoint = "none" /\ late = FALSE
    /\ service = [i \in Parts |-> "absent"] /\ origin = [i \in Parts |-> "none"]
    /\ manifest = [i \in Parts |-> "absent"] /\ combined = [i \in Parts |-> "absent"]
    /\ result = NoResult

Finish(status, receipts) ==
    /\ pc' = "done"
    /\ result' = [status |-> status, receipts |-> receipts]

\* prepare_publication: nothing to publish, a refusal (a path that does not
\* replay, missing metadata, a failing preflight), or a written payload.
SubmitAnyway == TRUE                      \* mutant: paths are not replayed
Replayed == replays = "all"

Prepare ==
    /\ pc = "prepare"
    /\ \/ replays = "none" /\ Finish("nothing", {})
       \/ replays # "none" /\ Finish("raised", {})
       \/ replays # "none" /\ Replayed /\ pc' = "submit" /\ UNCHANGED result
    /\ UNCHANGED <<replays, part, submitted, endpoint, late, service, origin,
                   manifest, combined>>

Elapse ==
    /\ ~late /\ pc # "done" /\ late' = TRUE
    /\ UNCHANGED <<pc, replays, part, submitted, endpoint, service, origin,
                   manifest, combined, result>>

\* The loop head: the part file is written, then the deadline is looked at.
NextPart ==
    /\ pc = "submit"
    /\ \/ part \notin Parts /\ pc' = "combine" /\ UNCHANGED <<submitted, result>>
       \/ part \in Parts /\ late /\ Finish("pending_or_failed", 1..part) /\ UNCHANGED submitted
       \/ /\ part \in Parts /\ ~late /\ pc' = "wait"
          /\ submitted' = submitted \cup {part} /\ UNCHANGED result
    /\ UNCHANGED <<replays, part, endpoint, late, service, origin, manifest, combined>>

\* The client sends the part; it may be lost before it saves the receipt.
ClientSends ==
    /\ pc = "wait" /\ service[part] = "absent"
    /\ \E o \in Origins :
         /\ origin' = [origin EXCEPT ![part] = o]
         /\ service' = [service EXCEPT ![part] = "queued"]
    /\ UNCHANGED <<pc, replays, part, submitted, endpoint, late, manifest, combined,
                   result>>

ReceiptSaved ==
    /\ pc = "wait" /\ service[part] # "absent"
    /\ manifest' = [manifest EXCEPT ![part] = "queued"]
    /\ UNCHANGED <<pc, replays, part, submitted, endpoint, late, service, origin,
                   combined, result>>

ServiceSettles(i) ==
    /\ service[i] = "queued"
    /\ \E s \in Settled : service' = [service EXCEPT ![i] = s]
    /\ UNCHANGED <<pc, replays, part, submitted, endpoint, late, origin, manifest,
                   combined, result>>

AnyOrigin(o) == TRUE                      \* mutant: origins are not compared
SameOrigin(o) == endpoint = "none" \/ o = endpoint

OnlyAccepted == {i \in 1..part : i # part}   \* mutant: the current part is left out
NamedReceipts == 1..part

SamePart == part                          \* mutant: the offset does not advance
FollowingPart == part + 1

\* The client returned: an error code, an unusable manifest, or success.  A
\* client that exceeds its own time limit raises out of publish_result.
ClientReturns ==
    /\ pc = "wait"
    /\ \/ Finish("pending_or_failed", NamedReceipts) /\ UNCHANGED <<part, endpoint>>
       \/ Finish("raised", {}) /\ UNCHANGED <<part, endpoint>>
       \/ /\ manifest[part] # "absent"
          /\ IF SameOrigin(origin[part])
             THEN /\ endpoint' = origin[part] /\ part' = FollowingPart
                  /\ pc' = "submit" /\ UNCHANGED result
             ELSE Finish("pending_or_failed", NamedReceipts) /\ UNCHANGED <<part, endpoint>>
    /\ UNCHANGED <<replays, submitted, late, service, origin, manifest, combined>>

Combine ==
    /\ pc = "combine"
    /\ combined' = manifest
    /\ IF late THEN Finish("pending_or_failed", Parts) ELSE pc' = "poll" /\ UNCHANGED result
    /\ UNCHANGED <<replays, part, submitted, endpoint, late, service, origin, manifest>>

\* The polling client updates receipts it finds settled and saves what it has.
Observe(i) ==
    /\ pc = "poll" /\ combined[i] = "queued" /\ service[i] \in Settled
    /\ combined' = [combined EXCEPT ![i] = service[i]]
    /\ UNCHANGED <<pc, replays, part, submitted, endpoint, late, service, origin,
                   manifest, result>>

NothingQueued == \A i \in Parts : combined[i] # "queued"
PollOver == NothingQueued \/ late

\* It exits by itself when all is settled or its time is up, or is killed a
\* while after the deadline.
PollReturns ==
    /\ pc = "poll" /\ PollOver
    /\ \/ late /\ Finish("pending_or_failed", Parts)
       \/ pc' = "sync" /\ UNCHANGED result
    /\ UNCHANGED <<replays, part, submitted, endpoint, late, service, origin,
                   manifest, combined>>

\* It may also give up early, on an error of the service or of the network.
PollFails ==
    /\ pc = "poll" /\ pc' = "sync"
    /\ UNCHANGED <<replays, part, submitted, endpoint, late, service, origin,
                   manifest, combined, result>>

NothingRejected ==                        \* mutant: unresolved receipts are forgotten
    \A i \in Parts : combined[i] # "rejected"
AllSettledWell == \A i \in Parts : combined[i] \in {"published", "duplicate"}

NotSynced == manifest                     \* mutant: part manifests keep their states
Synced == [i \in Parts |-> IF combined[i] # "absent" THEN combined[i] ELSE manifest[i]]

\* The part manifests take the polled states; then the verdict.
Sync ==
    /\ pc = "sync"
    /\ manifest' = Synced
    /\ \/ AllSettledWell /\ Finish("published", Parts)
       \/ Finish("pending_or_failed", Parts)     \* unsettled, or an exit code
    /\ UNCHANGED <<replays, part, submitted, endpoint, late, service, origin, combined>>

Step == Prepare \/ NextPart \/ ClientReturns \/ Combine \/ PollReturns \/ Sync

Next ==
    \/ Step \/ Elapse \/ ClientSends \/ ReceiptSaved \/ PollFails
    \/ \E i \in Parts : ServiceSettles(i) \/ Observe(i)

Spec == Init /\ [][Next]_vars /\ WF_vars(Step) /\ WF_vars(Elapse)

----------------------------------------------------------------------------
(* Properties                                                               *)

\* "published" is said only when the service has taken or already had every
\* part (publication.py:217-221).
PublishedIsTrue ==
    result.status = "published" =>
        \A i \in Parts : service[i] \in {"published", "duplicate"}

\* Whatever the service accepted is in a receipts file the caller is told
\* about, unless the call raised (publication.py:166, 174-176).
ReceiptsNamed ==
    pc = "done" /\ result.status \notin {"raised"} =>
        {i \in Parts : service[i] # "absent"} \subseteq result.receipts

\* Receipts of different services are never polled together
\* (publication.py:178-181).
OneEndpoint == pc \in {"poll", "sync"} => \A i, j \in Parts : origin[i] = origin[j]

\* Nothing that does not replay reaches the service (publication.py:60).
OnlyReplayed == (\E i \in Parts : service[i] # "absent") => replays = "all"

\* After a verdict the part manifests tell what was polled, so that a later
\* retry starts from it (publication.py:210-216).
ManifestsCurrent ==
    (pc = "done" /\ result.status = "published") =>
        \A i \in Parts : manifest[i] = combined[i]

\* The call ends (publication.py:162).
PublishEnds == <>(pc = "done")
=============================================================================
