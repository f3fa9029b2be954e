----------------------------- MODULE OracleClient -----------------------------
(***************************************************************************)
(* The Oracle client library: its installer (src/oracle_installer.cpp) and *)
(* the process-wide ODPI-C context that loads it (getDpiContext,           *)
(* src/oracle_connection.cpp), on Linux.  The disk survives a crash and    *)
(* the re-exec of the process; memory does not.                            *)
(*                                                                         *)
(* On disk: the downloaded archive, libclntsh.so (lib), the libraries it   *)
(* needs that come with it (deps) and a libaio with the right SONAME.      *)
(***************************************************************************)
EXTENDS Naturals

CONSTANTS
    HostThreads, \* the host's threads
    NoThread,    \* not a thread
    MaxCalls,    \* bound: calls of all threads in all process images
    MaxCrashes   \* bound: crashes

ASSUME OracleAssumption ==
    NoThread \notin HostThreads /\ MaxCalls \in Nat /\ MaxCrashes \in Nat

VARIABLES
    archive,   \* the archive on disk: "none", "partial" or "whole"
    lib, deps, aio,                            \* the files of the client
    mutex, ctx, failed, failedInstalled, attempted,   \* ContextState
    options,   \* ClientOptions
    env,       \* [boot: the bootstrap guard, path: the variable names the
               \*  directory, loader: ld.so read it when this image began]
    orphan,    \* an image ended inside install()
    execs,     \* times the process replaced itself since it was started
    calls, crashes, th

disk == <<archive, lib, deps, aio>>
memory == <<mutex, ctx, failed, failedInstalled, attempted>>
clientVars == <<disk, memory, options, env, orphan, execs, calls, crashes, th>>

\* A thread outside any call.  auto: in the install() that getDpiContext runs;
\* installed: what getDpiContext saw.
Idle == [pc |-> "idle", auto |-> FALSE, installed |-> FALSE]

Installing == {"check", "download", "unzip", "unzipping", "clean", "failed", "aio"}
PCs == {"idle", "context", "create"} \cup Installing

\* Types; and a thread that creates the context or installs for it holds the mutex.
ClientTypeOK ==
    /\ archive \in {"none", "partial", "whole"}
    /\ {lib, deps, aio, ctx, failed, failedInstalled, attempted, orphan} \subseteq BOOLEAN
    /\ mutex \in HostThreads \cup {NoThread}
    /\ options \in [autoInstall : BOOLEAN, reexecForLibraryPath : BOOLEAN]
    /\ env \in [boot : BOOLEAN, path : BOOLEAN, loader : BOOLEAN]
    /\ execs \in Nat /\ calls \in 0..MaxCalls /\ crashes \in 0..MaxCrashes
    /\ \A t \in HostThreads :
        /\ th[t].pc \in PCs
        /\ {th[t].auto, th[t].installed} \subseteq BOOLEAN
        /\ (th[t].auto \/ th[t].pc = "create") <=> mutex = t

ClientInit ==
    /\ archive = "none"
    /\ lib = FALSE /\ deps = FALSE /\ aio = FALSE
    /\ mutex = NoThread /\ ctx = FALSE /\ failed = FALSE
    /\ failedInstalled = FALSE /\ attempted = FALSE
    /\ options \in [autoInstall : BOOLEAN, reexecForLibraryPath : BOOLEAN]
    /\ env \in [boot : {FALSE}, path : BOOLEAN, loader : BOOLEAN] /\ env.path = env.loader
    /\ orphan = FALSE
    /\ execs = 0 /\ calls = 0 /\ crashes = 0
    /\ th = [t \in HostThreads |-> Idle]

GoOn(t, pc) == th' = [th EXCEPT ![t].pc = pc]

Enter(t, pc) ==
    /\ th[t].pc = "idle"
    /\ calls < MaxCalls
    /\ calls' = calls + 1
    /\ GoOn(t, pc)

\* isInstalled(): the one file it looks for is there.
isInstalled == lib

----------------------------------------------------------------------------
(* install() *)

Install(t) ==
    /\ Enter(t, "check")
    /\ UNCHANGED <<disk, memory, options, env, orphan, execs, crashes>>

(***************************************************************************)
(* install() returns: to the host, or to the getDpiContext that called it, *)
(* which remembers a failure and otherwise looks for the client again.     *)
(***************************************************************************)
InstallReturns(t, ok) ==
    IF ~th[t].auto
    THEN th' = [th EXCEPT ![t] = Idle] /\ UNCHANGED memory
    ELSE IF ok
    THEN /\ th' = [th EXCEPT ![t] = [pc |-> "create", auto |-> FALSE, installed |-> isInstalled]]
         /\ UNCHANGED memory
    ELSE /\ th' = [th EXCEPT ![t] = Idle]
         /\ failed' = TRUE /\ failedInstalled' = FALSE
         /\ mutex' = NoThread
         /\ UNCHANGED <<ctx, attempted>>

\* Already there, no directory or no archive file: the early returns.
InstallEarly(t) ==
    /\ th[t].pc = "check"
    /\ \E ok \in BOOLEAN :
        /\ ok <=> isInstalled
        /\ InstallReturns(t, ok)
    /\ UNCHANGED <<disk, options, env, orphan, execs, calls, crashes>>

\* The archive file is created, or cut to nothing under another install().
OpenArchive(t) ==
    /\ th[t].pc = "check"
    /\ ~isInstalled
    /\ archive' = "partial"
    /\ GoOn(t, "download")
    /\ UNCHANGED <<lib, deps, aio, memory, options, env, orphan, execs, calls, crashes>>

OthersWrite(t) == \E u \in HostThreads \ {t} : th[u].pc = "download"

\* All of it came; with two writers the file may be anything.  It may also be gone.
Downloaded(t) ==
    /\ th[t].pc = "download"
    /\ archive' \in CASE archive = "none" -> {"none"}
                      [] archive # "none" /\ OthersWrite(t) -> {"partial", "whole"}
                      [] OTHER -> {"whole"}
    /\ GoOn(t, "unzip")
    /\ UNCHANGED <<lib, deps, aio, memory, options, env, orphan, execs, calls, crashes>>

\* Cancelled, no answer, a status other than 200 or a full disk: the file is left.
DownloadFailsDirty(t) ==
    /\ th[t].pc = "download"
    /\ InstallReturns(t, FALSE)
    /\ UNCHANGED <<disk, options, env, orphan, execs, calls, crashes>>

\* Cancelled, no answer, a status other than 200 or a full disk: the file is removed.
DownloadFails(t) ==
    /\ th[t].pc = "download"
    /\ archive' = "none"
    /\ InstallReturns(t, FALSE)
    /\ UNCHANGED <<lib, deps, aio, options, env, orphan, execs, calls, crashes>>

\* unzip writes one file after the other.
UnzipLib(t) ==
    /\ th[t].pc = "unzip"
    /\ archive = "whole"
    /\ lib' = TRUE
    /\ GoOn(t, "unzipping")
    /\ UNCHANGED <<archive, deps, aio, memory, options, env, orphan, execs, calls, crashes>>

UnzipRest(t) ==
    /\ th[t].pc = "unzipping"
    /\ archive = "whole"
    /\ deps' = TRUE
    /\ GoOn(t, "clean")
    /\ UNCHANGED <<archive, lib, aio, memory, options, env, orphan, execs, calls, crashes>>

\* A bad archive or a full disk: try again.
UnzipRetries(t) ==
    /\ th[t].pc \in {"unzip", "unzipping"}
    /\ GoOn(t, "unzip")
    /\ UNCHANGED <<disk, memory, options, env, orphan, execs, calls, crashes>>

\* A bad archive or a full disk; what was written stays.
UnzipFails(t) ==
    /\ th[t].pc \in {"unzip", "unzipping"}
    /\ GoOn(t, "failed")
    /\ UNCHANGED <<disk, memory, options, env, orphan, execs, calls, crashes>>

\* The archive is removed whatever unzip said; then the result is looked at.
Clean(t) ==
    /\ th[t].pc \in {"clean", "failed"}
    /\ archive' = "none"
    /\ IF th[t].pc = "clean" /\ isInstalled
       THEN GoOn(t, "aio") /\ UNCHANGED memory
       ELSE InstallReturns(t, FALSE)
    /\ UNCHANGED <<lib, deps, aio, options, env, orphan, execs, calls, crashes>>

\* ensureLibaio: a system copy or a download; its failure is not looked at.
InstallLibaio(t) ==
    /\ th[t].pc = "aio"
    /\ aio' \in {aio, TRUE}
    /\ InstallReturns(t, TRUE)
    /\ UNCHANGED <<archive, lib, deps, options, env, orphan, execs, calls, crashes>>

----------------------------------------------------------------------------
(* The context *)

\* OracleConnection::open (allowInstall) and needsClientInstall wait for the mutex.
Connect(t) ==
    /\ Enter(t, "context")
    /\ UNCHANGED <<disk, memory, options, env, orphan, execs, crashes>>

\* getDpiContext up to the attempt: a live context, an automatic install, or a try.
GetDpiContext(t, allowInstall) ==
    /\ th[t].pc = "context"
    /\ mutex = NoThread
    /\ IF ctx
       THEN th' = [th EXCEPT ![t] = Idle] /\ UNCHANGED <<mutex, attempted>>
       ELSE /\ mutex' = t
            /\ IF ~isInstalled /\ allowInstall /\ options.autoInstall /\ ~attempted
               THEN /\ attempted' = TRUE
                    /\ th' = [th EXCEPT ![t] = [pc |-> "check", auto |-> TRUE, installed |-> FALSE]]
               ELSE /\ th' = [th EXCEPT ![t] = [pc |-> "create", auto |-> FALSE,
                                                 installed |-> isInstalled]]
                    /\ UNCHANGED attempted
    /\ UNCHANGED <<disk, ctx, failed, failedInstalled, options, env, orphan, execs, calls, crashes>>

\* Nothing changed since the last failure: no attempt.
Remembered(t) ==
    /\ th[t].pc = "create"
    /\ failed /\ failedInstalled = th[t].installed
    /\ mutex' = NoThread
    /\ th' = [th EXCEPT ![t] = Idle]
    /\ UNCHANGED <<disk, ctx, failed, failedInstalled, attempted, options, env, orphan, execs, calls, crashes>>

ToBeTried(t) == th[t].pc = "create" /\ ~(failed /\ failedInstalled = th[t].installed)

\* The process is to be replaced to put the directory on the loader's path.
WantsReexec(t) == th[t].installed /\ options.reexecForLibraryPath /\ ~env.path

\* reexecWithLdLibraryPath without its guard in the environment.
ReexecAgain(t) == ToBeTried(t) /\ WantsReexec(t)

\* reexecWithLdLibraryPath gets to execv: at most once in a process and the images after it.
MayReexec(t) == ToBeTried(t) /\ WantsReexec(t) /\ ~env.boot

\* A new image: memory starts afresh, every other thread is gone.
NewProcess ==
    /\ orphan' = (orphan \/ \E t \in HostThreads : th[t].pc \in Installing \ {"check", "aio"})
    /\ mutex' = NoThread /\ ctx' = FALSE /\ failed' = FALSE
    /\ failedInstalled' = FALSE /\ attempted' = FALSE
    /\ th' = [t \in HostThreads |-> Idle]

\* execv; the host may run in an environment that drops the path variable (a setuid image).
Reexec(t) ==
    /\ MayReexec(t)
    /\ env' \in {[boot |-> TRUE, path |-> p, loader |-> p] : p \in BOOLEAN}
    /\ execs' = execs + 1
    /\ NewProcess
    /\ aio' \in {aio, TRUE}
    /\ UNCHANGED <<archive, lib, deps, options, calls, crashes>>

(***************************************************************************)
(* dpiContext_createWithParams, after ensureLibaio and, where one was      *)
(* tried, an execv that failed and leaves the variables set.  libclntsh.so *)
(* loads if all it needs is there and the loader began with the path.      *)
(***************************************************************************)
CreateContext(t) ==
    /\ ToBeTried(t)
    /\ env' = IF MayReexec(t) THEN [env EXCEPT !.boot = TRUE, !.path = TRUE] ELSE env
    /\ aio' \in IF th[t].installed THEN {aio, TRUE} ELSE {aio}
    /\ ctx' = (th[t].installed /\ lib /\ deps /\ aio' /\ env.loader)
    /\ failed' = ~ctx'
    /\ failedInstalled' = IF ctx' THEN failedInstalled ELSE th[t].installed
    /\ mutex' = NoThread
    /\ th' = [th EXCEPT ![t] = Idle]
    /\ UNCHANGED <<archive, lib, deps, attempted, options, orphan, execs, calls, crashes>>

\* resetContext(): forgets a failure and the automatic install; a live context is kept.
ResetContext(t) ==
    /\ mutex = NoThread
    /\ Enter(t, "idle")
    /\ failed' = FALSE /\ failedInstalled' = FALSE /\ attempted' = FALSE
    /\ UNCHANGED <<disk, mutex, ctx, options, env, orphan, execs, crashes>>

\* The process dies and is started again from outside.
Crash ==
    /\ crashes < MaxCrashes
    /\ crashes' = crashes + 1
    /\ env' = [boot |-> FALSE, path |-> FALSE, loader |-> FALSE]
    /\ execs' = 0
    /\ NewProcess
    /\ UNCHANGED <<disk, options, calls>>

----------------------------------------------------------------------------
Step(t) ==
    \/ InstallEarly(t) \/ OpenArchive(t) \/ Downloaded(t) \/ DownloadFails(t)
    \/ UnzipLib(t) \/ UnzipRest(t) \/ UnzipFails(t) \/ Clean(t) \/ InstallLibaio(t)
    \/ \E allowInstall \in BOOLEAN : GetDpiContext(t, allowInstall)
    \/ Remembered(t) \/ Reexec(t) \/ CreateContext(t)

ClientNext ==
    \/ \E t \in HostThreads : Install(t) \/ Connect(t) \/ ResetContext(t) \/ Step(t)
    \/ Crash

ClientSpec == ClientInit /\ [][ClientNext]_clientVars /\ \A t \in HostThreads : WF_clientVars(Step(t))

----------------------------------------------------------------------------
(***************************************************************************)
(* The process replaces itself at most once between two starts, whatever   *)
(* the new image finds (a client that cannot be loaded, a path variable    *)
(* that did not survive): no exec loop.                                    *)
(***************************************************************************)
ReexecOnce == execs <= 1

(***************************************************************************)
(* No archive is left behind: on every way out of install() (cancelled,    *)
(* failed download, failed or successful extraction) the file is removed.  *)
(* Only a process that ended inside install() leaves one.                  *)
(***************************************************************************)
ArchiveIsOwned ==
    archive # "none" => orphan \/ \E t \in HostThreads : th[t].pc \in Installing

(***************************************************************************)
(* connect and install() return: a download may fail and an extraction may *)
(* fail, but nobody keeps the context's mutex for ever and the process     *)
(* does not replace itself for ever.                                       *)
(***************************************************************************)
CallsReturn == \A t \in HostThreads : th[t].pc # "idle" ~> th[t].pc = "idle"
=============================================================================
