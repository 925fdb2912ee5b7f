---------------------------- MODULE WorkerHost ----------------------------
(***************************************************************************)
(* The worker process: the repositories it is bound to (from the command   *)
(* line, from the file of earlier changes, and changed while it runs by    *)
(* the management API), the configurations loaded for them, what the       *)
(* coordinator has registered for the worker, the token it authenticates   *)
(* with, and the loop that polls for tasks.                                *)
(* A binding is the path of a repository; 0 stands for no binding.         *)
(***************************************************************************)
EXTENDS Naturals, FiniteSets

CONSTANTS
    BoundRepos,    \* repositories
    Paths,         \* checkouts, positive numbers
    Cli,           \* Cli[r]: the binding of the command line
    Askers,        \* concurrent management requests
    Overlap,       \* TRUE when management requests may overlap
    Slots,         \* tasks that run at a time
    MaxAsks, MaxGlitches, MaxStarts, MaxTokens   \* bounds

ASSUME HostAssumption ==
    /\ Paths \subseteq Nat \ {0} /\ Cli \in [BoundRepos -> Paths \cup {0}] /\ Overlap \in BOOLEAN
    /\ \E r \in BoundRepos : Cli[r] # 0
    /\ Slots \in Nat \ {0} /\ {MaxAsks, MaxGlitches, MaxStarts} \subseteq Nat /\ MaxTokens \in Nat \ {0}

VARIABLES
    host,      \* down, boots, up, or drains
    bound,     \* bindings in memory
    loaded,    \* the path each configuration was loaded from
    filed,     \* bindings in the file
    row,       \* the coordinator's row of the worker
    leaving,   \* the worker was found idle and is about to be unregistered
    myToken,   \* the token the process was started with
    minted,    \* tokens issued so far
    gone,      \* tokens that were revoked
    ask,       \* management requests in progress
    agreed,    \* the last request succeeded and nothing has failed since
    job,       \* one task per repository: pending, held, running or done
    asks, glitches, starts

hostVars == <<host, bound, loaded, filed, row, leaving, myToken, minted, gone, ask, agreed, job, asks, glitches, starts>>

Bindings == [BoundRepos -> Paths \cup {0}]
NoBinding == [r \in BoundRepos |-> 0]
ReposOf(b) == {r \in BoundRepos : b[r] # 0}
NoWorkerRow == [there |-> FALSE, repos |-> {}, kid |-> 0, valid |-> FALSE]
NoAsk == [pc |-> "idle", kind |-> "none", repo |-> CHOOSE r \in BoundRepos : TRUE, prev |-> 0, seen |-> NoBinding]

HostTypeOK ==
    /\ host \in {"down", "boots", "up", "drains"} /\ {bound, loaded, filed} \subseteq Bindings
    /\ row \in [there : BOOLEAN, repos : SUBSET BoundRepos, kid : 0..MaxTokens, valid : BOOLEAN]
    /\ myToken \in 0..MaxTokens /\ minted \in 0..MaxTokens /\ gone \subseteq 1..MaxTokens /\ {agreed, leaving} \subseteq BOOLEAN
    /\ job \in [BoundRepos -> {"pending", "held", "running", "done"}]
    /\ ask \in [Askers -> [pc : {"idle", "configs", "swap", "register", "send", "file", "write", "undo"},
                           kind : {"none", "add", "remove", "reload"}, repo : BoundRepos, prev : Paths \cup {0}, seen : Bindings]]

\* The first token has been issued; the worker has never been started.
HostInit ==
    /\ host = "down" /\ bound = NoBinding /\ loaded = NoBinding /\ filed = NoBinding
    /\ row = [NoWorkerRow EXCEPT !.there = TRUE, !.kid = 1, !.valid = TRUE] /\ leaving = FALSE /\ minted = 1 /\ myToken = 1 /\ gone = {}
    /\ ask = [c \in Askers |-> NoAsk] /\ agreed = FALSE /\ job = [r \in BoundRepos |-> "pending"]
    /\ asks = 0 /\ glitches = 0 /\ starts = 0

-----------------------------------------------------------------------------
(* Tokens.                                                                 *)

\* AuthenticateWorkerToken looks for the row that has the token's id and hash.
Accepted(k) == row.there /\ row.valid /\ row.kid = k

\* IssueWorkerToken writes the row of the worker, with a new token.
IssueToken ==
    /\ minted < MaxTokens /\ minted' = minted + 1
    /\ row' = [row EXCEPT !.there = TRUE, !.kid = minted + 1, !.valid = TRUE]
    /\ UNCHANGED <<leaving, host, bound, loaded, filed, myToken, gone, ask, agreed, job, asks, glitches, starts>>

\* Mutant: a revocation that names a token revokes whichever the row has.
RevokeTokenOfWorker(k) ==
    /\ row.there /\ k \in 1..minted /\ row' = [row EXCEPT !.valid = FALSE] /\ gone' = gone \cup {k}
    /\ UNCHANGED <<leaving, host, bound, loaded, filed, myToken, minted, ask, agreed, job, asks, glitches, starts>>

\* RevokeWorkerToken with the id of the token: no row has it, nothing is revoked.
RevokeToken(k) ==
    /\ row.there /\ row.kid = k /\ row' = [row EXCEPT !.valid = FALSE] /\ gone' = gone \cup {k}
    /\ UNCHANGED <<leaving, host, bound, loaded, filed, myToken, minted, ask, agreed, job, asks, glitches, starts>>

\* Unregister refuses while a task of the worker runs.  The check ...
CheckIdle ==
    /\ row.there /\ ~leaving /\ leaving' = TRUE
    /\ \A r \in BoundRepos : job[r] \notin {"held", "running"}
    /\ UNCHANGED <<host, bound, loaded, filed, row, myToken, minted, gone, ask, agreed, job, asks, glitches, starts>>

\* ... and the deletion are two statements; the token goes with the row.
DeleteWorker ==
    /\ leaving /\ leaving' = FALSE /\ row' = NoWorkerRow /\ agreed' = FALSE
    /\ UNCHANGED <<host, bound, loaded, filed, myToken, minted, gone, ask, job, asks, glitches, starts>>

-----------------------------------------------------------------------------
(* Start of the process.                                                   *)

\* mergeRepoBindings: the file wins.
MergeBindings(cli, file) == [r \in BoundRepos |-> IF file[r] # 0 THEN file[r] ELSE cli[r]]

\* The bindings and their configurations are loaded and the management server
\* starts; a repository whose configuration does not load ends the process.
Boot ==
    /\ host = "down" /\ starts < MaxStarts /\ starts' = starts + 1 /\ myToken' = minted
    /\ bound' = MergeBindings(Cli, filed)
    /\ \/ loaded' = bound' /\ host' = "boots" /\ agreed' = TRUE /\ glitches' = glitches
       \/ glitches < MaxGlitches /\ glitches' = glitches + 1 /\ loaded' = NoBinding /\ host' = "down" /\ agreed' = FALSE
    /\ UNCHANGED <<filed, row, leaving, minted, gone, ask, job, asks>>

\* registerWorkerRepos writes the row of the worker, with its repositories.
Registered(repos) == [row EXCEPT !.there = TRUE, !.repos = repos]

\* registerCurrentWorker: without an accepted token, or when the coordinator
\* does not answer, the process ends.
RegisterAtBoot ==
    /\ host = "boots"
    /\ \/ Accepted(myToken) /\ ReposOf(bound) # {} /\ row' = Registered(ReposOf(bound)) /\ host' = "up" /\ glitches' = glitches
       \/ glitches < MaxGlitches /\ glitches' = glitches + 1 /\ host' = "drains" /\ row' = row
       \/ (~Accepted(myToken) \/ ReposOf(bound) = {}) /\ host' = "drains" /\ UNCHANGED <<leaving, row, glitches>>
    /\ UNCHANGED <<bound, loaded, filed, leaving, myToken, minted, gone, ask, agreed, job, asks, starts>>

-----------------------------------------------------------------------------
(* Management requests.                                                    *)

Alive == host \in {"boots", "up", "drains"}
MayAsk(c) == ask[c] = NoAsk /\ Alive /\ asks < MaxAsks /\ (Overlap \/ \A d \in Askers : ask[d] = NoAsk)

AskAdd(c, r, p) ==
    /\ MayAsk(c) /\ asks' = asks + 1 /\ agreed' = FALSE /\ bound' = [bound EXCEPT ![r] = p]
    /\ ask' = [ask EXCEPT ![c] = [NoAsk EXCEPT !.pc = "configs", !.kind = "add", !.repo = r, !.prev = bound[r]]]
    /\ UNCHANGED <<leaving, host, loaded, filed, row, myToken, minted, gone, job, glitches, starts>>

AskRemove(c, r) ==
    /\ MayAsk(c) /\ asks' = asks + 1 /\ bound[r] # 0 /\ agreed' = FALSE /\ bound' = [bound EXCEPT ![r] = 0]
    /\ ask' = [ask EXCEPT ![c] = [NoAsk EXCEPT !.pc = "configs", !.kind = "remove", !.repo = r, !.prev = bound[r]]]
    /\ UNCHANGED <<leaving, host, loaded, filed, row, myToken, minted, gone, job, glitches, starts>>

AskReload(c) ==
    /\ MayAsk(c) /\ asks' = asks + 1 /\ agreed' = FALSE
    /\ ask' = [ask EXCEPT ![c] = [NoAsk EXCEPT !.pc = "configs", !.kind = "reload"]]
    /\ UNCHANGED <<leaving, host, bound, loaded, filed, row, myToken, minted, gone, job, glitches, starts>>

\* The list of bindings is copied under the lock of the store, and used after
\* it is released: for the configurations, for the registration, for the file.
AfterList(pc) == CASE pc = "configs" -> "swap" [] pc = "register" -> "send" [] pc = "file" -> "write"
ListBindings(c) ==
    /\ Alive /\ ask[c].pc \in {"configs", "register", "file"}
    /\ ask' = [ask EXCEPT ![c] = [@ EXCEPT !.seen = bound, !.pc = AfterList(ask[c].pc)]]
    /\ UNCHANGED <<leaving, host, bound, loaded, filed, row, myToken, minted, gone, agreed, job, asks, glitches, starts>>

\* reload replaces all configurations when each of them loads.
SwapConfigs(c) ==
    /\ Alive /\ ask[c].pc = "swap" /\ loaded' = ask[c].seen /\ ask' = [ask EXCEPT ![c].pc = "register"]
    /\ UNCHANGED <<leaving, host, bound, filed, row, myToken, minted, gone, agreed, job, asks, glitches, starts>>

\* A reload ends here; a changed binding is written to the file as well.
EndsHere(c) == ask[c].kind = "reload"

\* Mutant: the registration is sent once, at the start of the process.
SendRegisterOnce(c) ==
    /\ Alive /\ ask[c].pc = "send" /\ Accepted(myToken) /\ ReposOf(ask[c].seen) # {}
    /\ row' = row /\ ask' = [ask EXCEPT ![c] = IF EndsHere(c) THEN NoAsk ELSE [@ EXCEPT !.pc = "file"]]
    /\ agreed' = EndsHere(c)
    /\ UNCHANGED <<leaving, host, bound, loaded, filed, myToken, minted, gone, job, asks, glitches, starts>>

SendRegister(c) ==
    /\ Alive /\ ask[c].pc = "send" /\ Accepted(myToken) /\ ReposOf(ask[c].seen) # {}
    /\ row' = Registered(ReposOf(ask[c].seen))
    /\ ask' = [ask EXCEPT ![c] = IF EndsHere(c) THEN NoAsk ELSE [@ EXCEPT !.pc = "file"]]
    /\ agreed' = EndsHere(c)
    /\ UNCHANGED <<leaving, host, bound, loaded, filed, myToken, minted, gone, job, asks, glitches, starts>>

\* A configuration does not load, the coordinator does not accept the
\* registration, or no binding is left.
AskFails(c) ==
    /\ Alive /\ ask[c].pc \in {"swap", "send"}
    /\ \/ glitches < MaxGlitches /\ glitches' = glitches + 1
       \/ ask[c].pc = "send" /\ (~Accepted(myToken) \/ ReposOf(ask[c].seen) = {}) /\ glitches' = glitches
    /\ ask' = [ask EXCEPT ![c] = IF EndsHere(c) THEN NoAsk ELSE [@ EXCEPT !.pc = "undo"]]
    /\ UNCHANGED <<leaving, host, bound, loaded, filed, row, myToken, minted, gone, agreed, job, asks, starts>>

\* The handler restores the binding, and only the binding.
Undo(c) ==
    /\ Alive /\ ask[c].pc = "undo" /\ bound' = [bound EXCEPT ![ask[c].repo] = ask[c].prev] /\ ask' = [ask EXCEPT ![c] = NoAsk]
    /\ UNCHANGED <<leaving, host, loaded, filed, row, myToken, minted, gone, agreed, job, asks, glitches, starts>>

\* persistRepos: a write that fails is logged.
WriteFile(c) ==
    /\ Alive /\ ask[c].pc = "write" /\ ask' = [ask EXCEPT ![c] = NoAsk]
    /\ \/ filed' = ask[c].seen /\ glitches' = glitches /\ agreed' = TRUE
       \/ filed' = filed /\ glitches < MaxGlitches /\ glitches' = glitches + 1 /\ agreed' = agreed
    /\ UNCHANGED <<leaving, host, bound, loaded, row, myToken, minted, gone, job, asks, starts>>

-----------------------------------------------------------------------------
(* The loop that polls, and the end of the process.                        *)

InHand == {r \in BoundRepos : job[r] = "held"}

\* The coordinator hands out a task of a repository registered for the worker.
PollHost(r) ==
    /\ host = "up" /\ InHand = {} /\ Accepted(myToken) /\ r \in row.repos /\ job[r] = "pending"
    /\ job' = [job EXCEPT ![r] = "held"]
    /\ UNCHANGED <<leaving, host, bound, loaded, filed, row, myToken, minted, gone, ask, agreed, asks, glitches, starts>>

\* Without a binding or a configuration the task is given back.
GiveBack(r) ==
    /\ host = "up" /\ job[r] = "held" /\ (bound[r] = 0 \/ loaded[r] = 0) /\ job' = [job EXCEPT ![r] = "pending"]
    /\ UNCHANGED <<leaving, host, bound, loaded, filed, row, myToken, minted, gone, ask, agreed, asks, glitches, starts>>

RunJob(r) ==
    /\ host = "up" /\ job[r] = "held" /\ bound[r] # 0 /\ loaded[r] # 0
    /\ Cardinality({q \in BoundRepos : job[q] = "running"}) < Slots /\ job' = [job EXCEPT ![r] = "running"]
    /\ UNCHANGED <<leaving, host, bound, loaded, filed, row, myToken, minted, gone, ask, agreed, asks, glitches, starts>>

EndJob(r) ==
    /\ host \in {"up", "drains"} /\ job[r] = "running" /\ job' = [job EXCEPT ![r] = "done"]
    /\ UNCHANGED <<leaving, host, bound, loaded, filed, row, myToken, minted, gone, ask, agreed, asks, glitches, starts>>

\* A signal, a poll that fails or a token that is refused ends the loop; a task
\* in hand stays with the coordinator until its lease ends.
StopLoop ==
    /\ host = "up" /\ host' = "drains"
    /\ \/ glitches < MaxGlitches /\ glitches' = glitches + 1
       \/ ~Accepted(myToken) /\ InHand = {} /\ glitches' = glitches
    /\ UNCHANGED <<leaving, bound, loaded, filed, row, myToken, minted, gone, ask, agreed, job, asks, starts>>

\* The process waits for its tasks, closes the management server, which waits
\* for requests up to a deadline, and ends.
EndHost ==
    /\ host = "drains" /\ \A r \in BoundRepos : job[r] # "running"
    /\ host' = "down" /\ bound' = NoBinding /\ loaded' = NoBinding /\ ask' = [c \in Askers |-> NoAsk] /\ agreed' = FALSE
    /\ job' = [r \in BoundRepos |-> IF job[r] = "held" THEN "pending" ELSE job[r]]
    /\ UNCHANGED <<leaving, filed, row, myToken, minted, gone, asks, glitches, starts>>

HostNext ==
    \/ IssueToken \/ CheckIdle \/ DeleteWorker \/ Boot \/ RegisterAtBoot \/ StopLoop \/ EndHost
    \/ \E k \in 1..minted : RevokeToken(k)
    \/ \E c \in Askers :
         \/ AskReload(c) \/ ListBindings(c) \/ SwapConfigs(c) \/ SendRegister(c) \/ AskFails(c) \/ Undo(c) \/ WriteFile(c)
         \/ \E r \in BoundRepos : AskRemove(c, r) \/ \E p \in Paths : AskAdd(c, r, p)
    \/ \E r \in BoundRepos : PollHost(r) \/ GiveBack(r) \/ RunJob(r) \/ EndJob(r)

HostSpec == HostInit /\ [][HostNext]_hostVars

-----------------------------------------------------------------------------
(* Properties.                                                             *)

\* When the last management request has succeeded and nothing has failed since,
\* the bindings of the worker, its configurations and the repositories the
\* coordinator polls for it are the same (reloadAndRegister).
BindingsAgree == agreed /\ host = "up" => loaded = bound /\ (Accepted(myToken) => row.repos = ReposOf(bound))

\* The token that is accepted is the one issued last, unless it was revoked:
\* a revocation by id that comes after a rotation spares the new token
\* (RevokeWorkerToken, IssueWorkerToken, AuthenticateWorkerToken).
OnlyTheLatestToken == \A k \in 1..minted : Accepted(k) <=> row.there /\ k = minted /\ k \notin gone

\* A repository removed through the API, the change written to the file, is
\* not bound again by a restart of the worker.  The comment on
\* mergeRepoBindings calls the file the authoritative record of additions and
\* removals; a repository of the command line comes back.
RemovalsSurvive == [][Boot /\ filed # NoBinding => ReposOf(bound') \subseteq ReposOf(filed)]_hostVars

\* A worker is not unregistered while it runs a task (Unregister).
UnregisteredIsIdle == [][DeleteWorker => \A r \in BoundRepos : job[r] # "running"]_hostVars
============================================================================
