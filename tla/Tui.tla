--------------------------------- MODULE Tui ---------------------------------
(***************************************************************************)
(* The terminal dashboard: a model that changes on messages only (keys,     *)
(* ticks, the answers to its requests) and after each message asks for what *)
(* is due.  Requests are answered in any order, late, or with an error.     *)
(*                                                                          *)
(* Sections other than the catalog and the deployments are polled alike and *)
(* share no state: Fast says which of health, fleet and events there are.   *)
(* A list of the fleet or of events is its length.  Time is counted in      *)
(* refresh intervals, and an age stops at SlowTicks: nothing looks further. *)
(***************************************************************************)
EXTENDS Integers, Sequences, FiniteSets

CONSTANTS
    EnvId,      \* environments a catalog may list
    Catalogs,   \* the listings of them the control plane may answer
    Fast,       \* sections on the fast tier
    SlowTicks,  \* slowInterval, in refresh intervals
    MaxFails,   \* bound: failed requests
    MaxStack,   \* bound: requests outstanding for one environment's deployments
    NoEnv

ASSUME TuiAssumption ==
    /\ Catalogs \subseteq Seq(EnvId) /\ NoEnv \notin EnvId
    /\ Fast \subseteq {"health", "fleet", "events"}
    /\ EnvId \cap {"org", "catalog", "deployments", "health", "fleet", "events"} = {}
    /\ SlowTicks \in Nat \ {0} /\ MaxFails \in Nat /\ MaxStack \in Nat \ {0}

VARIABLES
    m,      \* Model
    net,    \* how many requests of each kind are outstanding
    fails   \* failed requests so far

tuiVars == <<m, net, fails>>

Section == Fast \cup {"catalog", "deployments"}
Request == Fast \cup {"org", "catalog"} \cup EnvId   \* those of EnvId: its deployments

Never == SlowTicks + 1                               \* updatedAt.IsZero()
NoSection == [age |-> Never, err |-> FALSE, loading |-> FALSE]

newModel ==
    [org |-> FALSE, fatal |-> FALSE, quitting |-> FALSE,
     front |-> FALSE,                                \* the environments' pane is
     cursor |-> 0, envs |-> << >>,                   \* of the environments' pane
     sec |-> [s \in Section |-> NoSection],
     list |-> NoEnv,                                  \* whose deployments are held
     deploymentsFor |-> NoEnv]

\* Run: the organization and the health are asked for at once.
TuiInit ==
    /\ m = newModel /\ fails = 0
    /\ net = [r \in Request |-> IF r \in {"org", "health"} THEN 1 ELSE 0]

-----------------------------------------------------------------------------
(* What the model reads off itself.                                         *)

clamp(i, n) == IF n <= 0 THEN 0 ELSE IF i >= n THEN n - 1 ELSE IF i < 0 THEN 0 ELSE i

selectedEnvID(x) ==
    IF x.envs = << >> THEN NoEnv ELSE x.envs[clamp(x.cursor, Len(x.envs)) + 1]

\* Two slips: what is outstanding is asked for again; what failed is not.
elapsedAnyway(s, every) == s.age = Never \/ s.age >= every
elapsedUnlessFailed(s, every) == ~s.loading /\ ~s.err /\ (s.age = Never \/ s.age >= every)

elapsed(s, every) == ~s.loading /\ (s.age = Never \/ s.age >= every)

due(x) ==
    LET sel == selectedEnvID(x) IN
    IF ~x.org THEN {} ELSE
    {s \in Fast : elapsed(x.sec[s], 1)}
    \cup {s \in {"catalog"} : (x.front \/ x.sec[s].age = Never) /\ elapsed(x.sec[s], SlowTicks)}
    \cup {e \in {sel} \ {NoEnv} :
            x.front /\ (e # x.deploymentsFor \/ elapsed(x.sec["deployments"], 1))}

markLoading(x, f) ==
    [x EXCEPT !.sec = [s \in Section |->
        IF s \in f \/ (s = "deployments" /\ f \cap EnvId # {})
        THEN [x.sec[s] EXCEPT !.loading = TRUE] ELSE x.sec[s]]]

\* app.Update: the model takes the message, then asks for what is due.
Update(x, left) ==
    LET f == IF x.quitting \/ x.fatal THEN {} ELSE due(x) IN
    /\ m' = markLoading(x, f)
    /\ net' = [r \in Request |->
                 IF r \in f /\ (r \in EnvId => left[r] < MaxStack)
                 THEN left[r] + 1 ELSE left[r]]

-----------------------------------------------------------------------------
(* Messages.                                                                *)

Running == ~m.quitting

tickMsg ==
    LET older(s) == IF s.age < SlowTicks THEN [s EXCEPT !.age = @ + 1] ELSE s IN
    /\ Running
    /\ Update([m EXCEPT !.sec = [s \in Section |-> older(@[s])]], net)
    /\ UNCHANGED fails

settle(s, err) == [age |-> IF err THEN s.age ELSE 0, err |-> err, loading |-> FALSE]

Answer(r, err) ==
    /\ Running /\ net[r] > 0
    /\ err => fails < MaxFails
    /\ fails' = fails + (IF err THEN 1 ELSE 0)
Left(r) == [net EXCEPT ![r] = @ - 1]

orgMsg(err) ==
    /\ Answer("org", err)
    /\ Update(IF err THEN [m EXCEPT !.fatal = TRUE] ELSE [m EXCEPT !.org = TRUE], Left("org"))

\* healthMsg, fleetMsg, eventsMsg.
fastMsg(s, err) ==
    /\ Answer(s, err)
    /\ Update([m EXCEPT !.sec[s] = settle(@, err)], Left(s))

catalogMsg(list, err) ==
    /\ Answer("catalog", err)
    /\ LET x == [m EXCEPT !.sec["catalog"] = settle(@, err)] IN
       Update(IF err THEN x
              ELSE [x EXCEPT !.envs = list, !.cursor = clamp(@, Len(list))], Left("catalog"))

\* A slip: the list is taken before it is known whose it is.
deploymentsMsgTaken(e, err) ==
    /\ Answer(e, err)
    /\ LET x == [m EXCEPT !.sec["deployments"] = settle(@, err), !.list = e] IN
       Update(IF e # selectedEnvID(m) THEN [m EXCEPT !.list = e]
              ELSE IF err THEN x
              ELSE [x EXCEPT !.deploymentsFor = e], Left(e))

\* An answer for an environment the cursor has left is dropped.
deploymentsMsg(e, err) ==
    /\ Answer(e, err)
    /\ LET x == [m EXCEPT !.sec["deployments"] = settle(@, err)] IN
       Update(IF e # selectedEnvID(m) THEN m
              ELSE IF err THEN x
              ELSE [x EXCEPT !.list = e, !.deploymentsFor = e], Left(e))

-----------------------------------------------------------------------------
(* Keys.  A cursor of a pane other than the environments' selects nothing.  *)

cursorAt(x, i) ==
    IF x.front THEN [x EXCEPT !.cursor = clamp(i, Len(x.envs))] ELSE x

key(x) ==
    {[x EXCEPT !.quitting = TRUE]}                             \* q
    \cup {[x EXCEPT !.front = p] : p \in BOOLEAN}              \* tab, shift+tab, 1 to 4
    \cup {cursorAt(x, x.cursor + 1), cursorAt(x, x.cursor - 1),            \* down, up
          cursorAt(x, 0), cursorAt(x, Len(x.envs) - 1)}                    \* home, end
    \cup {[x EXCEPT !.sec = [s \in Section |-> [x.sec[s] EXCEPT !.age = Never]]]}  \* r

KeyMsg ==
    /\ Running
    /\ \E x \in key(m) : Update(x, net)
    /\ UNCHANGED fails

-----------------------------------------------------------------------------
Answers ==
    \E err \in BOOLEAN :
       \/ orgMsg(err)
       \/ \E s \in Fast : fastMsg(s, err)
       \/ \E c \in Catalogs : catalogMsg(c, err)
       \/ \E e \in EnvId : deploymentsMsg(e, err)

TuiNext == tickMsg \/ KeyMsg \/ Answers

TuiSpec == TuiInit /\ [][TuiNext]_tuiVars

(* The ticker ticks; every request has a timeout, so each is answered.      *)
TuiFairness ==
    /\ WF_tuiVars(tickMsg)
    /\ WF_tuiVars(\E err \in BOOLEAN : orgMsg(err))
    /\ \A s \in Fast : WF_tuiVars(\E err \in BOOLEAN : fastMsg(s, err))
    /\ WF_tuiVars(\E c \in Catalogs, err \in BOOLEAN : catalogMsg(c, err))
    /\ \A e \in EnvId : WF_tuiVars(\E err \in BOOLEAN : deploymentsMsg(e, err))

-----------------------------------------------------------------------------
\* What the pane shows under the selected environment.
revisions(x) ==
    IF selectedEnvID(x) = NoEnv \/ x.sec["deployments"].err
       \/ x.deploymentsFor # selectedEnvID(x)
    THEN NoEnv ELSE x.list

(* The revisions shown are those of the selected environment, whatever      *)
(* answers come late, in another order or for a row the cursor has left.    *)
(* deploymentsMsg and the view's revisions.                                 *)
OwnRevisions == revisions(m) # NoEnv => revisions(m) = selectedEnvID(m)

(* The cursor is on a row of the catalog, however it shrank under it.       *)
CursorInList == m.cursor \in 0..(Len(m.envs) - 1) \/ m.cursor = 0

(* A section is marked loading exactly while a request of it is out, and    *)
(* has never two: due and markLoading after every message.  (The first      *)
(* health request is not marked, and deployments are asked for at every     *)
(* message until those of the selected environment are there.)              *)
OneOutstanding ==
    \A s \in (Fast \ {"health"}) \cup {"catalog"} :
        net[s] <= 1 /\ (m.sec[s].loading <=> net[s] = 1)

(* A section of the fast tier is refreshed again and again while the        *)
(* session lasts, whatever keys are pressed and requests fail: a section    *)
(* that waits for an answer always gets out of waiting.                     *)
Polled == \A s \in Fast : []<>(m.sec[s].age = 0 \/ m.quitting \/ m.fatal)

(* "Deployments follow the cursor: fetch when the selection moved to an     *)
(* environment we do not have, or when what we have has gone stale": while  *)
(* the cursor rests on an environment its deployments are refreshed.        *)
FollowsCursor ==
    \A e \in EnvId :
        <>[](m.front /\ selectedEnvID(m) = e /\ ~m.quitting)
            => []<>(m.sec["deployments"].age = 0)

=============================================================================
