-------------------------------- MODULE RepoJob --------------------------------
(***************************************************************************)
(* CreateRepoAndJob of the GitLab variant (service/devopsgitlab.go): the   *)
(* caller starts a goroutine that creates a repository, a hook and a file  *)
(* in the git server, and waits for what the goroutine sends it over an    *)
(* unbuffered channel.  Requests that create projects, and the API         *)
(* server's initialiser, call it side by side in one process.              *)
(*                                                                         *)
(* The channel done is closed before the goroutine starts, so its select   *)
(* is always ready to send nil; once the context is cancelled it is ready  *)
(* to send an error as well, and Go picks either.                          *)
(***************************************************************************)
CONSTANTS
    Calls,     \* invocations of CreateRepoAndJob
    Names,     \* names of repositories
    Failures   \* calls to the git server that may fail: "repo", "hook", "file"

ASSUME RepoJobAssumption == Failures \subseteq {"repo", "hook", "file"}

VARIABLES
    up,         \* is the process of the API server running?
    caller,     \* call -> "idle", "waiting", "returned", or "lost" with the process
    worker,     \* call -> what its goroutine does next
    name,       \* call -> the repository it is to create
    id,         \* call -> what the goroutine knows of the repository's id
    closed,     \* call -> is the channel e closed?
    cancelled,  \* call -> is the context cancelled?
    reply,      \* call -> what it has returned
    repos,      \* repositories of the git server
    hooks,      \* repositories with a hook
    readmes,    \* repositories with README.md
    failed      \* history: the calls whose goroutine saw the hook or the file fail

jobVars ==
    <<up, caller, worker, name, id, closed, cancelled, reply, repos, hooks, readmes, failed>>

git == <<repos, hooks, readmes>>

-----------------------------------------------------------------------------
GitCalls == {"createRepo", "createHook", "createFile"}

JobTypeOK ==
    /\ up \in BOOLEAN
    /\ caller \in [Calls -> {"idle", "waiting", "returned", "lost"}]
    /\ worker \in [Calls -> GitCalls \cup {"none", "select", "sendError", "sendNil"}]
    /\ name \in [Calls -> Names]
    /\ id \in [Calls -> {"unset", "real", "zero"}]
    /\ closed \in [Calls -> BOOLEAN]
    /\ cancelled \in [Calls -> BOOLEAN]
    /\ reply \in [Calls -> {"none", "nil", "error"}]
    /\ repos \subseteq Names /\ hooks \subseteq Names /\ readmes \subseteq Names
    /\ failed \subseteq Calls

JobInit ==
    /\ up = TRUE
    /\ caller = [c \in Calls |-> "idle"]
    /\ worker = [c \in Calls |-> "none"]
    /\ name \in [Calls -> Names]
    /\ id = [c \in Calls |-> "unset"]
    /\ closed = [c \in Calls |-> FALSE]
    /\ cancelled = [c \in Calls |-> FALSE]
    /\ reply = [c \in Calls |-> "none"]
    /\ repos = {} /\ hooks = {} /\ readmes = {}
    /\ failed = {}

-----------------------------------------------------------------------------
\* Variant: the deferred cancel runs as the goroutine is handed out.
CallCancelled(c) ==
    /\ up /\ caller[c] = "idle"
    /\ caller' = [caller EXCEPT ![c] = "waiting"]
    /\ worker' = [worker EXCEPT ![c] = "createRepo"]
    /\ cancelled' = [cancelled EXCEPT ![c] = TRUE]
    /\ UNCHANGED <<up, name, id, closed, reply, git, failed>>

CreateRepoAndJob(c) ==
    /\ up /\ caller[c] = "idle"
    /\ caller' = [caller EXCEPT ![c] = "waiting"]
    /\ worker' = [worker EXCEPT ![c] = "createRepo"]
    /\ UNCHANGED <<up, name, id, closed, cancelled, reply, git, failed>>

\* A refusal, as of a name that is taken or a token that is not valid, is an
\* answer like any other, with id zero.  A call that fails closes the channel
\* and is followed by the next call all the same.
CreateRepo(c) ==
    /\ worker[c] = "createRepo"
    /\ \/ /\ name[c] \notin repos
          /\ repos' = repos \cup {name[c]}
          /\ id' = [id EXCEPT ![c] = "real"]
          /\ UNCHANGED closed
       \/ /\ id' = [id EXCEPT ![c] = "zero"]
          /\ UNCHANGED <<repos, closed>>
       \/ /\ "repo" \in Failures
          /\ repos' \in {repos, repos \cup {name[c]}}   \* the answer may be lost
          /\ id' = [id EXCEPT ![c] = "zero"]
          /\ closed' = [closed EXCEPT ![c] = TRUE]
    /\ worker' = [worker EXCEPT ![c] = "createHook"]
    /\ UNCHANGED <<up, caller, name, cancelled, reply, hooks, readmes, failed>>

\* What a call with this id adds to the set S of the git server, if it is
\* not refused.
Added(c, S) == IF id[c] = "real" THEN {S, S \cup {name[c]}} ELSE {S}

\* The goroutine sees a call fail: it cancels the context and goes on.
Fails(c) ==
    /\ cancelled' = [cancelled EXCEPT ![c] = TRUE]
    /\ failed' = failed \cup {c}

\* The handler takes a refusal for a hook.  A call whose answer is lost fails
\* with the hook in place.
CreateHook(c) ==
    /\ worker[c] = "createHook"
    /\ hooks' \in Added(c, hooks)
    /\ \/ UNCHANGED <<cancelled, failed>>
       \/ "hook" \in Failures /\ Fails(c)
    /\ worker' = [worker EXCEPT ![c] = "createFile"]
    /\ UNCHANGED <<up, caller, name, id, closed, reply, repos, readmes>>

\* Here one refusal is an error: that there is no such repository.  An answer
\* can be lost as that of the hook.
CreateFile(c) ==
    /\ worker[c] = "createFile"
    /\ readmes' \in Added(c, readmes)
    /\ \/ UNCHANGED <<cancelled, failed>>
       \/ (id[c] = "zero" \/ "file" \in Failures) /\ Fails(c)
    /\ worker' = [worker EXCEPT ![c] = "select"]
    /\ UNCHANGED <<up, caller, name, id, closed, reply, repos, hooks>>

\* Variant: done is closed by the caller only after it has got its reply.
SelectUndone(c) ==
    /\ worker[c] = "select"
    /\ \/ cancelled[c] /\ worker' = [worker EXCEPT ![c] = "sendError"]
       \/ reply[c] # "none" /\ worker' = [worker EXCEPT ![c] = "sendNil"]
    /\ UNCHANGED <<up, caller, name, id, closed, cancelled, reply, git, failed>>

Select(c) ==
    /\ worker[c] = "select"
    /\ \/ cancelled[c] /\ worker' = [worker EXCEPT ![c] = "sendError"]
       \/ worker' = [worker EXCEPT ![c] = "sendNil"]
    /\ UNCHANGED <<up, caller, name, id, closed, cancelled, reply, git, failed>>

\* Whoever returns runs the deferred cancel.
Returns(c, r) ==
    /\ caller' = [caller EXCEPT ![c] = "returned"]
    /\ reply' = [reply EXCEPT ![c] = r]
    /\ cancelled' = [cancelled EXCEPT ![c] = TRUE]

\* The goroutine goes round its loop again: it will block for good, since
\* nobody receives from the channel a second time.
Send(c) ==
    /\ worker[c] \in {"sendError", "sendNil"}
    /\ ~closed[c] /\ caller[c] = "waiting"
    /\ Returns(c, IF worker[c] = "sendNil" THEN "nil" ELSE "error")
    /\ worker' = [worker EXCEPT ![c] = "select"]
    /\ UNCHANGED <<up, name, id, closed, git, failed>>

\* From a channel that is closed comes nil.
ReceiveClosed(c) ==
    /\ caller[c] = "waiting" /\ closed[c]
    /\ Returns(c, "nil")
    /\ UNCHANGED <<up, worker, name, id, closed, git, failed>>

\* Variant: the panic is recovered, and the goroutine is somewhere else.
SendRecovered(c) ==
    /\ worker[c] \in {"sendError", "sendNil"}
    /\ closed[c]
    /\ worker' = [worker EXCEPT ![c] = "recovered"]
    /\ UNCHANGED <<up, caller, name, id, closed, cancelled, reply, git, failed>>

\* To send on a channel that is closed is a panic, and nobody recovers it
\* in this goroutine: the process ends, and every goroutine with it.
SendOnClosed(c) ==
    /\ worker[c] \in {"sendError", "sendNil"}
    /\ closed[c]
    /\ up' = FALSE
    /\ caller' = [d \in Calls |-> IF caller[d] = "waiting" THEN "lost" ELSE caller[d]]
    /\ worker' = [d \in Calls |-> "none"]
    /\ UNCHANGED <<name, id, closed, cancelled, reply, git, failed>>

\* The container is started again.
Restart ==
    /\ ~up
    /\ up' = TRUE
    /\ UNCHANGED <<caller, worker, name, id, closed, cancelled, reply, git, failed>>

-----------------------------------------------------------------------------
Goroutine(c) ==
    \/ CreateRepo(c)
    \/ CreateHook(c)
    \/ CreateFile(c)
    \/ Select(c)
    \/ Send(c)
    \/ SendOnClosed(c)

JobNext ==
    \/ \E c \in Calls : CreateRepoAndJob(c) \/ Goroutine(c) \/ ReceiveClosed(c)
    \/ Restart

RepoJobSpec == JobInit /\ [][JobNext]_jobVars

\* Go schedules every goroutine, and the git server answers or fails.
FairSpec == RepoJobSpec /\ \A c \in Calls : WF_jobVars(Goroutine(c)) /\ WF_jobVars(ReceiveClosed(c))
-----------------------------------------------------------------------------
(* Properties. *)

\* Whatever fails, the caller is not left waiting on the channel: it returns,
\* or it ends with the process.
EveryCallEnds == \A c \in Calls : caller[c] = "waiting" ~> caller[c] # "waiting"

\* An error is returned only by a call whose goroutine saw its hook or its
\* file fail: what cancels the context when the caller returns, or in another
\* call, cannot become its error, and the failure of the repository itself
\* never does.
ErrorMeansFailedCall ==
    \A c \in Calls : reply[c] = "error" => c \in failed /\ ~closed[c]

\* A call that returns has its calls of the git server behind it, unless the
\* first of them failed.
ReturnsLast ==
    \A c \in Calls :
        caller[c] = "returned" /\ ~closed[c] =>
            worker[c] \notin GitCalls

\* The process ends only after a call that could not create its repository,
\* and when it ends the callers go with it.
OnlyFailureEndsServer ==
    ~up => /\ \E c \in Calls : closed[c] /\ id[c] = "zero"
           /\ \A c \in Calls : caller[c] # "waiting"

-----------------------------------------------------------------------------
(* What makes the invariants inductive. *)

\* Before the caller returns only a failure has cancelled its context.
CancelledByFailure(c) ==
    reply[c] = "none" =>
        /\ cancelled[c] => c \in failed
        /\ worker[c] = "sendError" => cancelled[c]

Started(c) ==
    /\ caller[c] = "idle" => worker[c] = "none" /\ id[c] = "unset"
    /\ reply[c] = "none" <=> caller[c] # "returned"
    /\ worker[c] = "createRepo" => id[c] = "unset"
    /\ id[c] = "unset" =>
        worker[c] \in {"none", "createRepo"} /\ ~cancelled[c] /\ reply[c] = "none"
    /\ closed[c] => id[c] = "zero"

RepoJobInv ==
    /\ \A c \in Calls : CancelledByFailure(c) /\ Started(c)
    /\ ~up => \A c \in Calls : worker[c] = "none"
    /\ ErrorMeansFailedCall
    /\ ReturnsLast
    /\ OnlyFailureEndsServer
=============================================================================
