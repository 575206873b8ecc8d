------------------------------ MODULE EnvConfig ------------------------------
(***************************************************************************)
(* envconfig.go and slugPath: the directory the proxy reports, the slug    *)
(* made of it, and the snapshot of the directory that requests share for   *)
(* envConfigTTL.  A directory is a sequence of path elements, "/" first    *)
(* when it is absolute.  What is read of the directory and of git is       *)
(* represented by the time it is read at.                                  *)
(***************************************************************************)
EXTENDS Integers, FiniteSets, Sequences

CONSTANTS
    Handlers,       \* goroutines that build a request
    Words,          \* path elements of letters and digits
    Cwd,            \* the process's current directory, absolute
    envConfigTTL,
    Day,            \* the length of a day
    MaxGather,      \* how long git may take; the code sets no limit
    MaxTime,        \* bound on the clock
    None

ASSUME EnvConfigAssumption ==
    /\ envConfigTTL \in Nat \ {0} /\ Day \in Nat \ {0}
    /\ MaxGather \in Nat /\ MaxTime \in Nat
    /\ Cwd # <<>> /\ Cwd[1] = "/"
    /\ None \notin Nat \union Handlers

VARIABLES
    clock,      \* time.Now()
    workDir,    \* cliWorkDir()
    mu,         \* the handler that holds the cache's mutex, or None
    cfg, got,   \* the cached snapshot, and when it was taken
    pc,         \* "idle", "get", "gather", "built", "sent"
    structure,  \* when a handler that gathers read the directory
    config      \* the snapshot a handler was given, with its date

envVars == <<clock, workDir, mu, cfg, got, pc, structure, config>>

-----------------------------------------------------------------------------
(* Directories *)

\* Every run of other characters is one dash: only the words count.
slugPath(dir) == SelectSeq(dir, LAMBDA e : e \in Words)

\* filepath.Abs
Abs(dir) ==
    IF dir # <<>> /\ dir[1] = "/" THEN dir
    ELSE Cwd \o SelectSeq(dir, LAMBDA e : e # ".")

\* <<>> stands for what is not set.
cliWorkDir(override, env, home) ==
    Abs(CASE override # <<>> -> override
          [] override = <<>> /\ env # <<>> -> env
          [] override = <<>> /\ env = <<>> /\ home # <<>> -> home
          [] OTHER -> <<".">>)

-----------------------------------------------------------------------------
(* The cache *)

newEnvConfigCache == cfg' = None /\ got' = None

today(t) == t \div Day

Expired == got # None => clock - got > envConfigTTL

NoMutex == TRUE
Unlocked == mu = None

StayLocked == UNCHANGED mu
Unlock == mu' = None

SlideGot == got' = clock
KeepGot == UNCHANGED got

\* The date is added when the snapshot is handed out.
Return(h, snapshot) ==
    /\ config' = [config EXCEPT ![h] = [snapshot EXCEPT !.date = today(clock)]]
    /\ pc' = [pc EXCEPT ![h] = "built"]

Hit(h) ==
    /\ pc[h] = "get"
    /\ Unlocked /\ ~Expired
    /\ KeepGot
    /\ Return(h, cfg)
    /\ UNCHANGED <<clock, workDir, mu, cfg, structure>>

\* collectEnvConfig, under the mutex: the directory first, then git.
StartGather(h) ==
    /\ pc[h] = "get"
    /\ Unlocked /\ Expired
    /\ mu' = h
    /\ structure' = [structure EXCEPT ![h] = clock]
    /\ pc' = [pc EXCEPT ![h] = "gather"]
    /\ UNCHANGED <<clock, workDir, cfg, got, config>>

\* git answers, or the directory is no repository, or git fails.
EndGather(h) ==
    /\ pc[h] = "gather"
    /\ \E git \in {clock, None} :
          cfg' = [dir |-> workDir, structure |-> structure[h], git |-> git, date |-> None]
    /\ got' = clock
    /\ Unlock
    /\ Return(h, cfg')
    /\ UNCHANGED <<clock, workDir, structure>>

get(h) == Hit(h) \/ StartGather(h) \/ EndGather(h)

\* Time passes, but no git command runs for more than MaxGather.
Tick ==
    /\ clock < MaxTime
    /\ \A h \in Handlers : pc[h] = "gather" => clock - structure[h] < MaxGather
    /\ clock' = clock + 1
    /\ UNCHANGED <<workDir, mu, cfg, got, pc, structure, config>>
=============================================================================
