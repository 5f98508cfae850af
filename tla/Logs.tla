-------------------------------- MODULE Logs --------------------------------
(***************************************************************************)
(* On-demand container logs.  A request is a row; its answer is a bounded   *)
(* in-memory buffer.  Four parties touch them: the operator's `navarch      *)
(* logs` session, the agent of the node that runs the container, the        *)
(* handlers of the control plane and the reaper.                            *)
(*                                                                          *)
(* The module follows one request.  Other requests meet it only in the      *)
(* number of buffers, so they are that number.  A line of output is its     *)
(* position, and the clock since_at is compared with is the number of lines *)
(* written so far: all a time stamp decides is which lines lie before it.   *)
(***************************************************************************)
EXTENDS Integers, Sequences, FiniteSets, SequencesExt

CONSTANTS
    MaxLines,    \* lines the containers have in their logs
    TailLines,   \* tail_lines of the request
    MaxBytes,    \* maxBytes of a buffer, in lines
    MaxBuffers,  \* maxRequests of the buffer
    MaxFaults    \* deliveries and database calls that fail

ASSUME LogsAssumption ==
    /\ MaxLines \in Nat /\ MaxFaults \in Nat /\ MaxBytes \in Nat
    /\ TailLines \in Nat \ {0} /\ MaxBuffers \in Nat

Revision == {1, 2}
NoSince == -1

VARIABLES
    phase,   \* the deployment and instance row of each revision
    ctr,     \* the container of the revision exists
    out,     \* lines the container has written
    req,     \* the request's row of log_requests
    buf,     \* its entry of logbuf.Buffer
    others,  \* entries of other requests
    cli,     \* the operator's session
    ag,      \* the agent's tick, and the delivery handler it waits for
    swept,   \* the reaper has swept the row and not yet dropped its entry
    faults   \* failures so far

world == <<phase, ctr, out>>
logVars == <<phase, ctr, out, req, buf, others, cli, ag, swept, faults>>

NoBuf == [held |-> FALSE, chunks |-> <<>>, next |-> 0, dropped |-> FALSE, stale |-> FALSE]
NoReq == [st |-> "none", follow |-> FALSE, rev |-> 1, since |-> NoSince, due |-> FALSE,
          sent |-> 0]                  \* history: last line delivered and recorded
Gone == [NoReq EXCEPT !.st = "gone"]
NoCli == [pc |-> "none", cursor |-> 0, saw |-> "pending",
          ok |-> FALSE,                \* ended because the request is done
          news |-> <<>>,               \* history: what the buffer took, unseen yet
          idled |-> FALSE]             \* history: its buffer was freed for idleness
Closed == [NoCli EXCEPT !.pc = "closed"]
Idle == [pc |-> "idle", rev |-> 1, since |-> NoSince, lo |-> 0, hi |-> 0, err |-> FALSE]

LogsInit ==
    /\ phase = [v \in Revision |-> IF v = 1 THEN "placed" ELSE "none"]
    /\ ctr = [v \in Revision |-> FALSE]
    /\ out = [v \in Revision |-> 0]
    /\ req = NoReq
    /\ buf = NoBuf
    /\ others = 0
    /\ cli = NoCli
    /\ ag = Idle
    /\ swept = FALSE
    /\ faults = 0

-----------------------------------------------------------------------------
(* The rollouts underneath; module Rollout has them in full.                *)

Output(v) ==
    /\ ctr[v] /\ out[1] + out[2] < MaxLines
    /\ out' = [out EXCEPT ![v] = @ + 1]
    /\ UNCHANGED <<phase, ctr, req, buf, others, cli, ag, swept, faults>>

Place ==
    /\ phase[1] = "live" /\ phase[2] = "none"
    /\ phase' = [phase EXCEPT ![2] = "placed"]
    /\ UNCHANGED <<ctr, out, req, buf, others, cli, ag, swept, faults>>

Start(v) ==
    /\ phase[v] = "placed"
    /\ phase' = [phase EXCEPT ![v] = "up"]
    /\ ctr' = [ctr EXCEPT ![v] = TRUE]
    /\ UNCHANGED <<out, req, buf, others, cli, ag, swept, faults>>

Promote(v) ==
    /\ phase[v] = "up"
    /\ phase' = [w \in Revision |-> IF w = v THEN "live"
                                    ELSE IF phase[w] = "live" THEN "ended" ELSE phase[w]]
    /\ UNCHANGED <<ctr, out, req, buf, others, cli, ag, swept, faults>>

(* The agent removes the container of what ended; docker takes its log.     *)
RemoveContainer(v) ==
    /\ phase[v] \in {"ended", "deleted"} /\ ctr[v]
    /\ ctr' = [ctr EXCEPT ![v] = FALSE]
    /\ out' = [out EXCEPT ![v] = 0]
    /\ UNCHANGED <<phase, req, buf, others, cli, ag, swept, faults>>

(* Deleting the instance row takes its log request with it: the foreign     *)
(* key is ON DELETE CASCADE.  Nothing frees the buffer.                     *)
DeleteInstances(v) ==
    /\ phase[v] = "ended"
    /\ phase' = [phase EXCEPT ![v] = "deleted"]
    /\ req' = IF req.st # "none" /\ req.rev = v THEN Gone ELSE req
    /\ UNCHANGED <<ctr, out, buf, others, cli, ag, swept, faults>>

-----------------------------------------------------------------------------
(* The buffer.  Chunk [seq, lo, hi] holds lines lo+1 to hi.                 *)

Size(chunks) == FoldSeq(LAMBDA c, n : n + (c.hi - c.lo), 0, chunks)
Entries == others + (IF buf.held THEN 1 ELSE 0)

(* Drops from the front while there is too much and more than one chunk.    *)
Trim(chunks) ==
    LET fits == {k \in 1..Len(chunks) :
                    k = Len(chunks) \/ Size(SubSeq(chunks, k, Len(chunks))) <= MaxBytes}
        first == CHOOSE k \in fits : \A j \in fits : k <= j
    IN  SubSeq(chunks, first, Len(chunks))

Write(b, lo, hi) ==
    LET all == Append(b.chunks, [seq |-> b.next, lo |-> lo, hi |-> hi])
        kept == Trim(all)
    IN  [held |-> TRUE, chunks |-> kept, next |-> b.next + 1, stale |-> FALSE,
         dropped |-> b.dropped \/ Len(kept) < Len(all)]

(* Read's loop over the chunks: those from a number on.                     *)
ChunksFrom(b, from) ==
    LET taken[k \in 0..Len(b.chunks)] ==
            IF k = 0 THEN << >>
            ELSE IF b.chunks[k].seq >= from THEN Append(taken[k - 1], b.chunks[k])
            ELSE taken[k - 1]
    IN  taken[Len(b.chunks)]

(* A slip: the page starts after the cursor instead of at it.               *)
PageAfter(b, cursor) == ChunksFrom(b, cursor + 1)

(* The chunks a read from the cursor returns.                               *)
Page(b, cursor) == ChunksFrom(b, cursor)

(* Other requests' deliveries, closes and expiries.                         *)
OtherRequests ==
    /\ others' \in {others - 1, others + 1} \cap Nat
    /\ others' > others => Entries < MaxBuffers
    /\ UNCHANGED <<world, req, buf, cli, ag, swept, faults>>

-----------------------------------------------------------------------------
(* The operator's session: cmdLogs, and the handlers it calls.              *)

(* The live revision's instance, else the newest active one's.              *)
Active == {v \in Revision : phase[v] \in {"placed", "up", "live"}}
Resolved ==
    IF \E v \in Active : phase[v] = "live"
    THEN CHOOSE v \in Active : phase[v] = "live"
    ELSE CHOOSE v \in Active : \A w \in Active : w <= v

CreateLogRequest(follow) ==
    /\ req.st = "none"
    /\ Active # {}
    /\ phase[Resolved] # "placed"                \* it has a container id
    /\ req' = [NoReq EXCEPT !.st = "pending", !.follow = follow, !.rev = Resolved]
    /\ cli' = [cli EXCEPT !.pc = "row"]
    /\ UNCHANGED <<world, buf, others, ag, swept, faults>>

(* handleGetLogs reads the row first and the buffer after it.               *)
GetLogRequest ==
    /\ cli.pc = "row"
    /\ cli' = IF req.st = "gone" THEN Closed     \* 404, and so is the close
              ELSE [cli EXCEPT !.pc = "buffer", !.saw = req.st]
    /\ UNCHANGED <<world, req, buf, others, ag, swept, faults>>

(* The page is printed.  A one-shot session without output may run out of   *)
(* its 30 seconds.  A row swept meanwhile ends the session at its next turn.*)
ReadLogs ==
    /\ cli.pc = "buffer"
    /\ LET follow == req.follow
           over == cli.saw = "failed" \/ (~follow /\ cli.saw = "done")
       IN  \E pc \in {"row", "close"} :
             /\ over => pc = "close"
             /\ ~over /\ (follow \/ Page(buf, cli.cursor) # <<>>) => pc = "row"
             /\ cli' = [cli EXCEPT !.pc = pc, !.saw = "pending", !.news = <<>>,
                                   !.cursor = IF buf.held THEN buf.next ELSE @,
                                   !.ok = over /\ cli.saw = "done"]
    /\ buf' = [buf EXCEPT !.stale = FALSE]
    /\ UNCHANGED <<world, req, others, ag, swept, faults>>

(* The operator stops watching, or their terminal dies before the close.    *)
Leave ==
    /\ cli.pc = "row"
    /\ cli' \in {[cli EXCEPT !.pc = "close"], Closed}
    /\ UNCHANGED <<world, req, buf, others, ag, swept, faults>>

CloseLogRequest ==
    /\ cli.pc = "close"
    /\ IF req.st = "gone"
       THEN cli' = Closed /\ UNCHANGED req
       ELSE /\ cli' = [cli EXCEPT !.pc = "drop"]
            /\ req' = [req EXCEPT !.st = IF @ = "pending" THEN "done" ELSE @]
    /\ UNCHANGED <<world, buf, others, ag, swept, faults>>

DropClosed ==
    /\ cli.pc = "drop"
    /\ cli' = Closed
    /\ buf' = NoBuf
    /\ UNCHANGED <<world, req, others, ag, swept, faults>>

-----------------------------------------------------------------------------
(* The agent's tick and the delivery handler.                               *)

LogRequestsForNode ==
    /\ ag.pc = "idle"
    /\ req.st = "pending" /\ ~req.due
    /\ ag' = [Idle EXCEPT !.pc = "read", !.rev = req.rev, !.since = req.since]
    /\ UNCHANGED <<world, req, buf, others, cli, swept, faults>>

(* Lines after since, the last TailLines of them; an error when the         *)
(* container is gone.                                                       *)
ContainerLogs(v, since) ==
    LET later == {i \in 1..out[v] : i > since /\ i > out[v] - TailLines}
    IN  IF ctr[v]
        THEN [lo |-> out[v] - Cardinality(later), hi |-> out[v], err |-> FALSE]
        ELSE [lo |-> 0, hi |-> 0, err |-> TRUE]

CollectLogs ==
    /\ ag.pc = "read"
    /\ LET d == ContainerLogs(ag.rev, ag.since)
       IN  ag' = [Idle EXCEPT !.pc = "post", !.lo = d.lo, !.hi = d.hi, !.err = d.err]
    /\ UNCHANGED <<world, req, buf, others, cli, swept, faults>>

(* The POST never arrives; the request stays pending for the next tick.     *)
LoseDelivery ==
    /\ ag.pc = "post" /\ faults < MaxFaults
    /\ ag' = Idle
    /\ faults' = faults + 1
    /\ UNCHANGED <<world, req, buf, others, cli, swept>>

LogRequestOwnedByNode ==
    /\ ag.pc = "post"
    /\ ag' = IF req.st = "gone" THEN Idle ELSE [ag EXCEPT !.pc = "write"]
    /\ UNCHANGED <<world, req, buf, others, cli, swept, faults>>

(* A slip: a new entry is made without counting the others.                 *)
WriteDeliveryUncapped ==
    /\ ag.pc = "write"
    /\ ag' = [ag EXCEPT !.pc = "complete"]
    /\ IF ag.hi > ag.lo
       THEN /\ buf' = Write(buf, ag.lo, ag.hi)
            /\ cli' = IF cli.pc = "closed" THEN cli
                      ELSE [cli EXCEPT !.news = Append(@, <<ag.lo, ag.hi>>)]
       ELSE UNCHANGED <<buf, cli>>
    /\ UNCHANGED <<world, req, others, swept, faults>>

(* An empty read writes nothing; a new entry needs a free slot, and without *)
(* one the output is lost: the handler does not look at Write's answer.     *)
WriteDelivery ==
    /\ ag.pc = "write"
    /\ ag' = [ag EXCEPT !.pc = "complete"]
    /\ IF ag.hi > ag.lo /\ (buf.held \/ Entries < MaxBuffers)
       THEN /\ buf' = Write(buf, ag.lo, ag.hi)
            /\ cli' = IF cli.pc = "closed" THEN cli
                      ELSE [cli EXCEPT !.news = Append(@, <<ag.lo, ag.hi>>)]
       ELSE UNCHANGED <<buf, cli>>
    /\ UNCHANGED <<world, req, others, swept, faults>>

(* The row is moved on whatever its state is by now.                        *)
CompleteLogRequest ==
    /\ ag.pc = "complete"
    /\ ag' = Idle
    /\ \/ /\ req.st = "gone"
          /\ UNCHANGED <<req, faults>>
       \/ /\ req.st # "gone"
          /\ req' = IF ag.err THEN [req EXCEPT !.st = "failed"]
                    ELSE IF ~req.follow THEN [req EXCEPT !.st = "done"]
                    ELSE [req EXCEPT !.st = "pending", !.since = out[req.rev], !.sent = ag.hi]
          /\ UNCHANGED faults
       \/ /\ faults < MaxFaults
          /\ faults' = faults + 1
          /\ UNCHANGED req
    /\ UNCHANGED <<world, buf, others, cli, swept>>

-----------------------------------------------------------------------------
(* Time and the reaper.  expires_at is written once, when the request is    *)
(* made; a buffer is idle when nobody wrote or read it for ten minutes,     *)
(* longer than any handler lasts.                                           *)

Expire ==
    /\ req.st \notin {"none", "gone"} /\ ~req.due
    /\ req' = [req EXCEPT !.due = TRUE]
    /\ UNCHANGED <<world, buf, others, cli, ag, swept, faults>>

Age ==
    /\ buf.held /\ ~buf.stale
    /\ cli.pc # "buffer" /\ ag.pc \notin {"write", "complete"}
    /\ buf' = [buf EXCEPT !.stale = TRUE]
    /\ UNCHANGED <<world, req, others, cli, ag, swept, faults>>

(* A slip: only requests that have ended are swept.                         *)
SweepLogRequestsEnded ==
    /\ req.due /\ req.st # "pending"
    /\ req' = Gone
    /\ swept' = TRUE
    /\ UNCHANGED <<world, buf, others, cli, ag, faults>>

SweepLogRequests ==
    /\ req.due
    /\ req' = Gone
    /\ swept' = TRUE
    /\ UNCHANGED <<world, buf, others, cli, ag, faults>>

FreeBuffer ==
    /\ swept \/ buf.stale
    /\ buf' = NoBuf
    /\ cli' = IF cli.pc = "closed" THEN cli
              ELSE [cli EXCEPT !.news = <<>>, !.idled = @ \/ ~swept]
    /\ swept' = FALSE
    /\ UNCHANGED <<world, req, others, ag, faults>>

-----------------------------------------------------------------------------

Tick ==
    \/ LogRequestsForNode \/ CollectLogs \/ LoseDelivery
    \/ LogRequestOwnedByNode \/ WriteDelivery \/ CompleteLogRequest

LogsNext ==
    \/ Place
    \/ \E v \in Revision :
         Output(v) \/ Start(v) \/ Promote(v) \/ RemoveContainer(v) \/ DeleteInstances(v)
    \/ OtherRequests
    \/ \E follow \in BOOLEAN : CreateLogRequest(follow)
    \/ GetLogRequest \/ ReadLogs \/ Leave \/ CloseLogRequest \/ DropClosed
    \/ Tick
    \/ Expire \/ Age \/ SweepLogRequests \/ FreeBuffer

LogsSpec == LogsInit /\ [][LogsNext]_logVars

(* The agent ticks, the reaper ticks, a handler that started ends and time  *)
(* passes.  A session need not take its next turn, and no container need    *)
(* write.                                                                   *)
LogsFairness ==
    /\ WF_logVars(Tick)
    /\ WF_logVars(ReadLogs) /\ WF_logVars(DropClosed)
    /\ WF_logVars(Expire) /\ WF_logVars(SweepLogRequests)
    /\ WF_logVars(Age) /\ WF_logVars(FreeBuffer)

-----------------------------------------------------------------------------

(* As long as its request stands, what the next page of a session holds is  *)
(* exactly what the buffer took for it since its last page, in order; older *)
(* chunks are missing only when the page says so (dropped), or after the    *)
(* buffer was freed for idleness.                                           *)
(* Write, Read and the cursor in logbuf.go and handleGetLogs.               *)
PageIsNews ==
    LET page == Page(buf, cli.cursor)
        shown == [i \in 1..Len(page) |-> <<page[i].lo, page[i].hi>>]
    IN  cli.pc \in {"row", "buffer"} /\ req.st # "gone" =>
          \/ shown = cli.news
          \/ buf.dropped /\ IsSuffix(shown, cli.news)
          \/ cli.idled

(* A session that ends because its request is done has been shown all the   *)
(* buffer took for it: handleLogDelivery writes before it completes, and    *)
(* handleGetLogs reads the state before the buffer.                         *)
OneShotComplete == cli.ok => cli.news = <<>>

(* Memory is bounded whatever is opened and however fast containers write:  *)
(* no more entries than maxRequests, none over maxBytes unless one chunk    *)
(* alone is.  Write in logbuf.go.                                           *)
BufferBounded ==
    /\ Entries <= MaxBuffers
    /\ Size(buf.chunks) <= MaxBytes \/ Len(buf.chunks) = 1

(* LogRequestTTL "bounds a request whose requester walked away": once no    *)
(* session reads it any more, the request and its buffer are gone in the    *)
(* end, whatever was closed, cascaded or delivered late.  ReapOnce's sweep  *)
(* and Expire leave no output behind in memory.                             *)
Released == <>[](cli.pc # "buffer") => <>[](req.st \in {"none", "gone"} /\ ~buf.held)

(* LogRequestTTL's comment goes on: "Following keeps one row alive for a    *)
(* whole tail session, so this is the window a tail may be idle in, not     *)
(* the length of a session".  So a tail that was shown output and is being  *)
(* read at this moment is not swept from under its reader.                  *)
TailOutlivesTTL ==
    [][~(req.follow /\ cli.pc = "buffer" /\ cli.cursor > 0 /\ ~swept /\ swept')]_logVars

(* A session misses nothing of what the buffer took for it: on each page,   *)
(* and at its end.                                                          *)
SessionSeesAll == PageIsNews /\ OneShotComplete

=============================================================================
