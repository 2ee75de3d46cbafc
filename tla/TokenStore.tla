------------------------------ MODULE TokenStore ------------------------------
(***************************************************************************)
(* The credentials of the server (server/reload.go, and LoadConfig in      *)
(* server/config.go): a map fixed at startup, a map re-read from the       *)
(* tokens file, and the watch goroutine that re-reads it on SIGHUP or on   *)
(* file-system events.                                                     *)
(*                                                                         *)
(* The file is on a disk that others change: saved in place (truncated,    *)
(* then written: two moments, two events), moved aside and written anew,   *)
(* or replaced by a rename.  The inotify watch is on the inode the path    *)
(* named when it was added: the last two end it, and a rename over the     *)
(* path does so with an event that watch ignores.                          *)
(*                                                                         *)
(* A definition marked "Slip" is not the code: it is the next one with a   *)
(* plausible mistake in it, which the named property must catch.           *)
(***************************************************************************)
EXTENDS Naturals

CONSTANTS
    Token,     \* credentials clients present
    Bound,     \* what a token may be bound to: a service name, or "*"
    None,      \* no entry
    Bad,       \* a file that cannot be read or parsed (missing, half written)
    MaxSaves   \* bound on the changes of the file

ASSUME MaxSavesAssumption == MaxSaves \in Nat
ASSUME NoneAssumption == None \notin Bound

Maps == [Token -> Bound \cup {None}]

ASSUME BadAssumption == Bad \notin Maps

VARIABLES
    disk,     \* what reading the file gives now: a map, or Bad
    saving,   \* the map a save in place is about to write, or Bad
    saves,    \* changes so far
    env,      \* AXR_TOKENS, as LoadConfig parsed it
    inline,   \* tokenStore.inline
    file,     \* tokenStore.file
    lastErr,  \* tokenStore.lastErr # ""
    wpc,      \* where startup and then the watch goroutine stand
    fresh,    \* reload's local: what it read
    watched,  \* the inotify watch is on the file the path names
    events,   \* relevant file-system events not consumed yet
    pending,  \* the debounce timer is running
    hup,      \* a SIGHUP is in the channel (buffer 1)
    unread,   \* history: the disk changed since reload last read it
    blind     \* history: it did so without an event the goroutine will see

diskVars  == <<disk, saving, saves>>
storeVars == <<env, inline, file, lastErr>>
loopVars  == <<wpc, fresh>>
wakeVars  == <<events, pending, hup>>
histVars  == <<unread, blind>>
vars == <<diskVars, storeVars, loopVars, watched, wakeVars, histVars>>

TypeOK ==
    /\ disk \in Maps \cup {Bad}
    /\ saving \in Maps \cup {Bad}
    /\ saves \in 0 .. MaxSaves
    /\ env \in Maps /\ inline \in Maps /\ file \in Maps
    /\ lastErr \in BOOLEAN
    /\ wpc \in {"firstRead", "firstCommit", "arm", "select", "read", "commit"}
    /\ fresh \in Maps \cup {Bad}
    /\ watched \in BOOLEAN
    /\ events \in 0 .. 2 * MaxSaves
    /\ pending \in BOOLEAN
    /\ hup \in BOOLEAN
    /\ unread \in BOOLEAN
    /\ blind \in BOOLEAN

\* readTokensFile writes its entries over those already in the map.
Merge(m, f) == [t \in Token |-> IF f[t] = None THEN m[t] ELSE f[t]]

Empty == [t \in Token |-> None]

\* LoadConfig has read the file into the same map as AXR_TOKENS (an unreadable
\* file or an empty result ends the program) and newTokenStore copied the result.
Init ==
    /\ env \in Maps
    /\ disk \in Maps
    /\ inline = Merge(env, disk)
    /\ inline # Empty
    /\ saving = Bad
    /\ saves = 0
    /\ file = Empty
    /\ lastErr = FALSE
    /\ wpc = "firstRead"
    /\ fresh = Bad
    /\ watched = FALSE
    /\ events = 0
    /\ pending = FALSE
    /\ hup = FALSE
    /\ unread = TRUE
    /\ blind = TRUE

(***************************************************************************)
(* The world: whoever edits the file, and signals.                         *)
(***************************************************************************)

\* The disk changed; the kernel reports it if the path's inode is watched.  (It
\* may merge equal events that nobody consumed yet: one is as good as two.)
Changed ==
    /\ unread' = TRUE
    /\ blind' = (blind \/ ~watched)
    /\ events' = IF watched THEN events + 1 ELSE events

\* A save truncates the file first, or moves it away as a backup and with it
\* the watch (a Rename event)...
SaveBegins(m) ==
    /\ saving = Bad
    /\ saves < MaxSaves
    /\ saves' = saves + 1
    /\ saving' = m
    /\ disk' = Bad
    /\ Changed
    /\ watched' \in {watched, FALSE}
    /\ UNCHANGED <<storeVars, loopVars, pending, hup>>

\* ... and then writes it.
SaveEnds ==
    /\ saving # Bad
    /\ disk' = saving
    /\ saving' = Bad
    /\ Changed
    /\ UNCHANGED <<saves, storeVars, loopVars, watched, pending, hup>>

\* rename(2) over the path: the watch dies with its inode, and the Remove event
\* that tells so is not in the mask.
Replace(m) ==
    /\ saving = Bad
    /\ saves < MaxSaves
    /\ saves' = saves + 1
    /\ disk' = m
    /\ watched' = FALSE
    /\ unread' = TRUE
    /\ blind' = TRUE
    /\ UNCHANGED <<saving, storeVars, loopVars, wakeVars>>

Sighup ==
    /\ wpc \in {"select", "read", "commit"}
    /\ hup' = TRUE
    /\ UNCHANGED <<diskVars, storeVars, loopVars, watched, events, pending, histVars>>

(***************************************************************************)
(* reload, called by newTokenStore and by the watch goroutine.             *)
(***************************************************************************)

\* os.ReadFile and the parse.
Read ==
    /\ wpc \in {"firstRead", "read"}
    /\ fresh' = disk
    /\ unread' = FALSE
    /\ blind' = FALSE
    /\ wpc' = IF wpc = "read" THEN "commit" ELSE "firstCommit"
    /\ UNCHANGED <<diskVars, storeVars, watched, wakeVars>>

\* Slip (InSync): a failed reload leaves lastErr alone.
FailureSwallowed == lastErr
Failed == fresh = Bad

Taken == IF fresh = Bad THEN file ELSE fresh

\* Under the write lock: take the new map, or keep the old one and note why.
Commit ==
    /\ wpc \in {"firstCommit", "commit"}
    /\ lastErr' = Failed
    /\ file' = Taken
    /\ fresh' = Bad
    /\ wpc' = IF wpc = "commit" THEN "select" ELSE "arm"
    /\ UNCHANGED <<diskVars, env, inline, watched, wakeVars, histVars>>

(***************************************************************************)
(* The watch goroutine.                                                    *)
(***************************************************************************)

\* fsnotify's Add, which fails when there is no file at the path; what happened
\* to the file before it is not seen.
Arm ==
    /\ wpc = "arm"
    /\ wpc' = "select"
    /\ \/ watched' = TRUE
       \/ disk = Bad /\ UNCHANGED watched
    /\ UNCHANGED <<diskVars, storeVars, fresh, wakeVars, histVars>>

\* Slip (HupTakesEffect): the signal is consumed, and that is all.
HupSwallowed ==
    /\ wpc = "select"
    /\ hup
    /\ hup' = FALSE
    /\ UNCHANGED <<diskVars, storeVars, loopVars, watched, events, pending, histVars>>

OnHup ==
    /\ wpc = "select"
    /\ hup
    /\ hup' = FALSE
    /\ wpc' = "read"
    /\ UNCHANGED <<diskVars, storeVars, fresh, watched, events, pending, histVars>>

\* Slip (NoEditMissed): an event that arrives while the timer runs is dropped
\* together with the timer.
TriggerToggles == ~pending
Trigger == TRUE

\* An event starts the timer; one that is running is left alone.
OnEvent ==
    /\ wpc = "select"
    /\ events > 0
    /\ events' = events - 1
    /\ pending' = Trigger
    /\ UNCHANGED <<diskVars, storeVars, loopVars, watched, hup, histVars>>

\* Slip (EditTakesEffect): the timer is never armed.
TimerDead ==
    /\ FALSE
    /\ UNCHANGED vars

OnDebounce ==
    /\ wpc = "select"
    /\ pending
    /\ pending' = FALSE
    /\ wpc' = "read"
    /\ UNCHANGED <<diskVars, storeVars, fresh, watched, events, hup, histVars>>

-------------------------------------------------------------------------------

Watch == Arm \/ Read \/ Commit \/ OnHup \/ OnEvent \/ OnDebounce

World == Sighup \/ SaveEnds \/ \E m \in Maps : SaveBegins(m) \/ Replace(m)

Next == Watch \/ World

Spec == Init /\ [][Next]_vars

\* The goroutine runs; select chooses fairly among ready cases; a save that was
\* begun is finished.
Fairness ==
    /\ WF_vars(Arm) /\ WF_vars(Read) /\ WF_vars(Commit)
    /\ SF_vars(OnHup) /\ SF_vars(OnEvent) /\ SF_vars(OnDebounce)
    /\ WF_vars(SaveEnds)

FairSpec == Spec /\ Fairness

-------------------------------------------------------------------------------
(***************************************************************************)
(* Properties.                                                             *)
(***************************************************************************)

\* tokenStore.Lookup.
Lookup(t) == IF inline[t] # None THEN inline[t] ELSE file[t]

\* An edit of the watched file that reload has not read yet is going to make it
\* read again: its event is queued, the debounce runs, or reload is about to
\* read.  No interleaving of events, timer, signal and slow reads loses one.
NoEditMissed ==
    unread /\ ~blind => events > 0 \/ pending \/ wpc = "read"

\* Between reloads the store is what the file was when it was last read, and
\* lastErr says whether that reading failed.
InSync ==
    wpc \in {"arm", "select"} /\ ~unread =>
        IF disk = Bad THEN lastErr ELSE file = disk /\ ~lastErr

\* An edit of the watched file is read without anybody's help...
EditTakesEffect == unread /\ ~blind ~> ~unread \/ blind

\* ... and SIGHUP makes up for those that were not seen.
HupTakesEffect == hup /\ blind ~> ~blind

\* README.md:137 and reload.go:38-41: tokens that come from the file follow the
\* file.  A token the file had at startup was merged into the map that is never
\* reloaded, so it stays accepted when the file drops it.
RevokedNotAccepted ==
    wpc = "select" /\ ~unread /\ disk # Bad =>
        \A t \in Token : env[t] = None /\ disk[t] = None => Lookup(t) = None
===============================================================================
