------------------------------ MODULE DecisionFeed ------------------------------
(* The live log of the bouncer's decisions: the extension reports each to the  *)
(* risk service without waiting (extension/src/decisions.ts), the service keeps*)
(* the latest in a ring buffer and streams them (risk-service), and the web    *)
(* page shows what its EventSource receives (activity/page.tsx). Reports get   *)
(* lost and overtake each other, connections break, the service restarts.      *)
(* A decision stands for everything a report says; each is reported once.      *)
EXTENDS SequencesExt, Filter

CONSTANTS
    Decisions,
    BufferMax,             \* records the service keeps
    PageMax,         \* records the page keeps
    MaxInterrupted   \* bound: lost connections and restarts

ASSUME FeedAssumption == BufferMax \in Nat \ {0} /\ PageMax \in Nat /\ BufferMax <= PageMax

VARIABLES
    reported,    \* decisions the extension has reported
    posts,       \* reports on their way to the service
    up,          \* whether the service runs
    buffer,      \* the ring buffer, oldest first
    counter,     \* the last id given in this run of the service
    subscribed,  \* whether the page's stream is open and the service writes to it
    frames,      \* what the service has written and the page has not received
    page,        \* what the page shows, newest first
    interrupted  \* lost connections and restarts so far

vars == <<reported, posts, up, buffer, counter, subscribed, frames, page, interrupted>>

DecisionRecord == [id : Nat \ {0}, decision : Decisions]

TypeOK ==
    /\ reported \subseteq Decisions /\ posts \subseteq reported
    /\ up \in BOOLEAN /\ subscribed \in BOOLEAN
    /\ buffer \in Seq(DecisionRecord) /\ Len(buffer) <= BufferMax
    /\ counter \in Nat
    /\ frames \in Seq(DecisionRecord)
    /\ page \in Seq(DecisionRecord) /\ Len(page) <= PageMax
    /\ interrupted \in Nat
    /\ subscribed => up

Init ==
    /\ reported = {} /\ posts = {}
    /\ up = TRUE /\ subscribed = FALSE
    /\ buffer = <<>> /\ counter = 0
    /\ frames = <<>> /\ page = <<>>
    /\ interrupted = 0

--------------------------------------------------------------------------------
(* The extension. *)

RecordDecision(d) ==
    /\ d \notin reported
    /\ reported' = reported \cup {d}
    /\ posts' = posts \cup {d}
    /\ UNCHANGED <<up, buffer, counter, subscribed, frames, page, interrupted>>

\* The fetch fails and its rejection is swallowed.
ReportLost(d) ==
    /\ d \in posts
    /\ posts' = posts \ {d}
    /\ UNCHANGED <<reported, up, buffer, counter, subscribed, frames, page, interrupted>>

--------------------------------------------------------------------------------
(* The service: POST /decisions, GET /stream. *)

\* The latest BufferMax records.
ShiftedTooLate(b) == IF Len(b) > BufferMax + 1 THEN Tail(b) ELSE b  \* mutation: off by one

Shifted(b) == IF Len(b) > BufferMax THEN Tail(b) ELSE b

Record(d) ==
    LET decision == [id |-> counter + 1, decision |-> d]
    IN  /\ up /\ d \in posts
        /\ posts' = posts \ {d}
        /\ counter' = counter + 1
        /\ buffer' = Shifted(Append(buffer, decision))
        /\ frames' = IF subscribed THEN Append(frames, decision) ELSE frames
        /\ UNCHANGED <<reported, up, subscribed, page, interrupted>>

\* Mutation: the newest record is written first.
StreamNewestFirst ==
    /\ up /\ ~subscribed
    /\ subscribed' = TRUE
    /\ frames' = Reverse(buffer)
    /\ UNCHANGED <<reported, posts, up, buffer, counter, page, interrupted>>

\* The page connects, or connects again: it gets the buffer, then what is recorded.
Stream ==
    /\ up /\ ~subscribed
    /\ subscribed' = TRUE
    /\ frames' = buffer
    /\ UNCHANGED <<reported, posts, up, buffer, counter, page, interrupted>>

\* What was written and not received is gone; EventSource will connect again.
ConnectionLost ==
    /\ subscribed /\ interrupted < MaxInterrupted
    /\ subscribed' = FALSE /\ frames' = <<>>
    /\ interrupted' = interrupted + 1
    /\ UNCHANGED <<reported, posts, up, buffer, counter, page>>

\* The log is memory only.
ServiceStops ==
    /\ up /\ interrupted < MaxInterrupted
    /\ up' = FALSE
    /\ buffer' = <<>> /\ counter' = 0
    /\ subscribed' = FALSE /\ frames' = <<>>
    /\ interrupted' = interrupted + 1
    /\ UNCHANGED <<reported, posts, page>>

ServiceStarts ==
    /\ ~up /\ up' = TRUE
    /\ UNCHANGED <<reported, posts, buffer, counter, subscribed, frames, page, interrupted>>

--------------------------------------------------------------------------------
(* The page. *)

Newest(decisions) == SubSeq(decisions, 1, Min({PageMax, Len(decisions)}))

\* Mutation: a record whose id is on the page already is taken for a repetition.
ShowUnlessKnown(prev, decision) ==
    IF \E i \in DOMAIN prev : prev[i].id = decision.id THEN prev
    ELSE Newest(<<decision>> \o prev)

\* Mutation: a record that comes again is shown again.
ShowAgain(prev, decision) == Newest(<<decision>> \o prev)

\* setDecisions: the record goes first, one of the same id goes away.
Show(prev, decision) ==
    Newest(<<decision>> \o Kept(prev, {d \in ToSet(prev) : d.id # decision.id}))

OnMessage ==
    /\ frames # <<>>
    /\ page' = Show(page, Head(frames))
    /\ frames' = Tail(frames)
    /\ UNCHANGED <<reported, posts, up, buffer, counter, subscribed, interrupted>>

Next ==
    \/ \E d \in Decisions : RecordDecision(d) \/ ReportLost(d) \/ Record(d)
    \/ Stream \/ ConnectionLost \/ ServiceStops \/ ServiceStarts
    \/ OnMessage

Spec == Init /\ [][Next]_vars

\* EventSource connects again by itself, frames arrive while the connection lasts, and
\* someone starts a stopped service.
FairSpec == Spec /\ WF_vars(Stream) /\ WF_vars(OnMessage) /\ WF_vars(ServiceStarts)

--------------------------------------------------------------------------------
(* Properties *)

Shows(d) == \E i \in DOMAIN page : page[i].decision = d

Buffered(d) == \E i \in DOMAIN buffer : buffer[i].decision = d

Quiet == subscribed /\ frames = <<>>

\* When a page has received all it was sent, it begins with the service's records,
\* newest first, whatever it showed before: breaks, replays, ids given again by a
\* restarted service (page.tsx 37-46, decisions.ts 38-57, server.ts 115-126).
CaughtUp == Quiet => IsPrefix(Reverse(buffer), page)

\* However often the service replays its records, no decision is on the page twice
\* (page.tsx 40-42).
ShownOnce ==
    \A i, j \in DOMAIN page : page[i].decision = page[j].decision => i = j

\* A decision the service holds is shown in the end, or was pushed out or lost with a
\* restart before that: an id that is used again hides no new decision.
ShownInTheEnd == \A d \in Decisions : Buffered(d) ~> (Shows(d) \/ ~Buffered(d))
================================================================================
