------------------------------ MODULE Terminal ------------------------------
(***************************************************************************)
(* Two matters of a terminal.                                              *)
(*                                                                         *)
(* Flow control (compat-2.6.28.c): TCXONC stops and starts the terminal by *)
(* hand, TCIOFF and TCION send a character at once "even if stopped", and  *)
(* the line stops and starts it on its own.  Nothing but the write lock    *)
(* orders them.                                                            *)
(*                                                                         *)
(* Packet mode of a pseudo terminal: its master turns it on and off        *)
(* (TIOCPKT, compat-2.6.28.c) and reads the slave's ctrl_status, to which  *)
(* tty_set_termios (compat-2.6.39.c) writes changes of flow control: the   *)
(* first under the master's ctrl_lock, the second under the slave's.       *)
(***************************************************************************)
EXTENDS Naturals, FiniteSets

CONSTANTS Callers, Setters, None

VARIABLES
    stopped, flow_stopped,   \* of the tty
    atomic_write_lock,       \* the caller that holds it, or None
    at, was_stopped,         \* of each caller
    send_xchar,              \* the driver has that method
    asked,        \* history: the last request left the terminal stopped
    overtaken,    \* history: callers whose look at the terminal is out of date
    undone,       \* history: one of them stopped the terminal since that request
    held          \* history: whether they include the senders that left the
                  \* terminal stopped for their character, TCOOFF apart

flowvars == <<stopped, flow_stopped, atomic_write_lock, at, was_stopped, send_xchar,
              asked, overtaken, undone, held>>

FlowInit ==
    /\ stopped = FALSE /\ flow_stopped = FALSE /\ atomic_write_lock = None
    /\ at = [c \in Callers |-> "idle"] /\ was_stopped = [c \in Callers |-> FALSE]
    /\ send_xchar \in BOOLEAN
    /\ asked = FALSE /\ overtaken = {} /\ undone = FALSE /\ held = {}

Quiet == \A c \in Callers : at[c] = "idle"
Goto(c, place) == at' = [at EXCEPT ![c] = place]

\* The kernel's stop_tty; its start_tty starts nothing that TCOOFF stopped.
stop_tty == stopped' = TRUE
start_tty == stopped' = (stopped /\ flow_stopped)

\* Those who have looked at the terminal and will act on it.
Looked(c) == at[c] \in {"lock", "run", "write", "restore"}
Overtakes(me) == overtaken' = overtaken \cup {c \in Callers \ {me} : Looked(c)}
Requests(me) == asked' = stopped' /\ undone' = FALSE /\ Overtakes(me)

\* STOP and START characters from the line.
LineStops ==
    /\ stop_tty /\ Requests(None)
    /\ UNCHANGED <<flow_stopped, atomic_write_lock, at, was_stopped, send_xchar, held>>
LineStarts ==
    /\ start_tty /\ Requests(None)
    /\ UNCHANGED <<flow_stopped, atomic_write_lock, at, was_stopped, send_xchar, held>>

\* TCXONC with TCOOFF and TCOON: the flag, and in a second step the terminal.
TCOOFF(c) ==
    /\ at[c] = "idle" /\ ~flow_stopped
    /\ flow_stopped' = TRUE /\ Goto(c, "stop")
    /\ UNCHANGED <<stopped, atomic_write_lock, was_stopped, send_xchar, asked, overtaken,
                   undone, held>>
TCOON(c) ==
    /\ at[c] = "idle" /\ flow_stopped
    /\ flow_stopped' = FALSE /\ Goto(c, "start")
    /\ UNCHANGED <<stopped, atomic_write_lock, was_stopped, send_xchar, asked, overtaken,
                   undone, held>>
Switch(c) ==
    /\ \/ at[c] = "stop" /\ stop_tty
       \/ at[c] = "start" /\ start_tty
    /\ Requests(c) /\ Goto(c, "idle")
    /\ UNCHANGED <<flow_stopped, atomic_write_lock, was_stopped, send_xchar, held>>

\* TCIOFF, TCION: send_prio_char looks at the terminal before it has the lock.
\* A driver that has send_xchar needs neither.
send_prio_char(c) ==
    /\ at[c] = "idle"
    /\ was_stopped' = [was_stopped EXCEPT ![c] = stopped]
    /\ overtaken' = overtaken \ {c}
    /\ IF send_xchar THEN UNCHANGED at ELSE Goto(c, "lock")
    /\ UNCHANGED <<stopped, flow_stopped, atomic_write_lock, send_xchar, asked, undone, held>>

\* tty_write_lock: a signal ends the wait, not a free lock.
tty_write_lock(c) ==
    /\ at[c] = "lock"
    /\ \/ atomic_write_lock = None /\ atomic_write_lock' = c /\ Goto(c, "run")
       \/ atomic_write_lock # None /\ Goto(c, "idle") /\ UNCHANGED atomic_write_lock
    /\ UNCHANGED <<stopped, flow_stopped, was_stopped, send_xchar, asked, overtaken,
                   undone, held>>

StartsForIt(c) ==
    /\ at[c] = "run" /\ Goto(c, "write")
    /\ IF was_stopped[c] THEN start_tty ELSE UNCHANGED stopped
    /\ held' = IF stopped' /\ ~flow_stopped THEN held \cup {c \in overtaken} ELSE held
    /\ UNCHANGED <<flow_stopped, atomic_write_lock, was_stopped, send_xchar, asked,
                   overtaken, undone>>
Writes(c) ==
    /\ at[c] = "write" /\ Goto(c, "restore")
    /\ UNCHANGED <<stopped, flow_stopped, atomic_write_lock, was_stopped, send_xchar,
                   asked, overtaken, undone, held>>

\* Mutant of Restores: the terminal that was started for the character goes on.
Restores_Never(c) ==
    /\ at[c] = "restore" /\ Goto(c, "unlock")
    /\ UNCHANGED <<stopped, flow_stopped, atomic_write_lock, was_stopped, send_xchar, asked,
                   overtaken, undone, held>>

Restores(c) ==
    /\ at[c] = "restore" /\ Goto(c, "unlock")
    /\ IF was_stopped[c]
       THEN stop_tty /\ undone' = (undone \/ c \in overtaken) /\ Overtakes(c)
       ELSE UNCHANGED <<stopped, undone, overtaken>>
    /\ UNCHANGED <<flow_stopped, atomic_write_lock, was_stopped, send_xchar, asked, held>>
tty_write_unlock(c) ==
    /\ at[c] = "unlock" /\ atomic_write_lock' = None /\ Goto(c, "idle")
    /\ UNCHANGED <<stopped, flow_stopped, was_stopped, send_xchar, asked, overtaken,
                   undone, held>>

FlowNext ==
    \/ LineStops \/ LineStarts
    \/ \E c \in Callers :
         TCOOFF(c) \/ TCOON(c) \/ Switch(c) \/ send_prio_char(c) \/ tty_write_lock(c)
         \/ StartsForIt(c) \/ Writes(c) \/ Restores(c) \/ tty_write_unlock(c)

\* However calls overlap: when none is under way a request to stop the terminal
\* has never been lost, to the priority characters that start it in passing or
\* to others, and what TCOOFF stopped is stopped until TCOON.  A request to start
\* it is undone only by a sender that looked at the terminal before it, without
\* the lock (compat-2.6.28.c:343), and a sender leaves a terminal stopped for its
\* character, TCOOFF apart, only if others stopped it after that look: then the
\* character is not sent "even if stopped" (compat-2.6.28.c:336).  One sender at a
\* time writes.
FlowKept ==
    /\ Quiet => (asked => stopped) /\ (flow_stopped => stopped)
    /\ Quiet => (stopped => asked \/ undone)
    /\ FALSE \notin held
    /\ \A c \in Callers : at[c] \in {"run", "write", "restore", "unlock"} <=>
                          atomic_write_lock = c

-----------------------------------------------------------------------------
VARIABLES
    packet,           \* of the master
    ctrl_status,      \* of the slave: a subset of DOSTOP, NOSTOP, IOCTL
    termios,          \* what is set of Settings, on the slave
    termios_locked,   \* what cannot be changed of Settings
    termios_mutex, setter_at, old_termios,   \* its holder; of each setter
    loaded,           \* of the setter that changes ctrl_status: its last value
    master_at,        \* "idle", or "clear": within TIOCPKT, under the master's lock
    seen,             \* history: the flow control the reader was told of
    revived           \* history: a change of ctrl_status brought back what TIOCPKT
                      \* had cleared, and no other change came after it

pktvars == <<packet, ctrl_status, termios, termios_locked, termios_mutex, setter_at,
             old_termios, loaded, master_at, seen, revived>>

\* What the properties tell apart of struct ktermios: IXON, whether VSTOP and
\* VSTART are ^S and ^Q, and EXTPROC.
Settings == {"IXON", "keys", "EXTPROC"}
Flow(settings) == {"IXON", "keys"} \subseteq settings
FlowBits == {"DOSTOP", "NOSTOP"}

PacketInit ==
    /\ packet = FALSE /\ ctrl_status = {} /\ termios = {"keys"}
    /\ termios_locked \in {{}, {"IXON"}, {"keys", "EXTPROC"}}
    /\ termios_mutex = None /\ setter_at = [s \in Setters |-> "idle"]
    /\ old_termios = [s \in Setters |-> {}] /\ loaded = {}
    /\ master_at = "idle" /\ seen = FALSE /\ revived = FALSE

\* unset_locked_termios: NOSET_MASK, of every flag and character.
unset_locked_termios(new, old) ==
    (new \ termios_locked) \cup (old \cap termios_locked)

\* packet, and when it is turned on the slave's status in a second step.
TIOCPKT(pktmode) ==
    /\ master_at = "idle"
    /\ packet' = pktmode
    /\ master_at' = IF pktmode /\ ~packet THEN "clear" ELSE "idle"
    /\ UNCHANGED <<ctrl_status, termios, termios_locked, termios_mutex, setter_at,
                   old_termios, loaded, seen, revived>>

\* Mutant of ClearStatus: packet mode is turned on with the status of the last
\* time.
ClearStatus_Keeps ==
    /\ master_at = "clear" /\ master_at' = "idle"
    /\ seen' = Flow(termios) /\ revived' = FALSE
    /\ UNCHANGED <<packet, ctrl_status, termios, termios_locked, termios_mutex, setter_at,
                   old_termios, loaded>>

\* The reader learns the termios of the slave when the call is over.
ClearStatus ==
    /\ master_at = "clear" /\ master_at' = "idle"
    /\ ctrl_status' = {} /\ seen' = Flow(termios) /\ revived' = FALSE
    /\ UNCHANGED <<packet, termios, termios_locked, termios_mutex, setter_at, old_termios,
                   loaded>>

\* tty_set_termios on the slave, up to the look at the master's packet.
SetTermios(s, new) ==
    /\ setter_at[s] = "idle" /\ termios_mutex = None
    /\ termios_mutex' = s /\ old_termios' = [old_termios EXCEPT ![s] = termios]
    /\ termios' = unset_locked_termios(new, termios)
    /\ setter_at' = [setter_at EXCEPT ![s] = "look"]
    /\ UNCHANGED <<packet, ctrl_status, termios_locked, loaded, master_at, seen, revived>>

FlowChanged(s) == Flow(old_termios[s]) # Flow(termios)
extproc(s) == "EXTPROC" \in (old_termios[s] \cup termios)

Looks(s) ==
    /\ setter_at[s] = "look"
    /\ setter_at' = [setter_at EXCEPT ![s] = IF ~packet THEN "drivers"
                                             ELSE IF FlowChanged(s) THEN "drop"
                                             ELSE IF extproc(s) THEN "ioctl" ELSE "drivers"]
    /\ UNCHANGED <<packet, ctrl_status, termios, termios_locked, termios_mutex, old_termios,
                   loaded, master_at, seen, revived>>

\* Each change of the status is a load and a store; the slave's lock keeps its
\* reader out, not the master's TIOCPKT.
Loads(s) ==
    /\ setter_at[s] \in {"drop", "raise", "ioctl"}
    /\ loaded' = ctrl_status
    /\ setter_at' = [setter_at EXCEPT ![s] = CASE setter_at[s] = "drop"  -> "dropping"
                                               [] setter_at[s] = "raise" -> "raising"
                                               [] OTHER                  -> "adding"]
    /\ UNCHANGED <<packet, ctrl_status, termios, termios_locked, termios_mutex, old_termios,
                   master_at, seen, revived>>

Stores(s, here, value, next) ==
    /\ setter_at[s] = here /\ setter_at' = [setter_at EXCEPT ![s] = next]
    /\ ctrl_status' = value
    /\ UNCHANGED <<packet, termios, termios_locked, termios_mutex, old_termios, loaded,
                   master_at, seen>>

\* Mutant of Drops: the opposite bit of an earlier change stays.
Drops_Nothing(s) == Stores(s, "dropping", loaded, "raise") /\ UNCHANGED revived

Drops(s) == Stores(s, "dropping", loaded \ FlowBits, "raise") /\ UNCHANGED revived
Raises(s) ==
    /\ Stores(s, "raising", loaded \cup {IF Flow(termios) THEN "DOSTOP" ELSE "NOSTOP"},
              IF extproc(s) THEN "ioctl" ELSE "drivers")
    /\ revived' = FALSE
Adds(s) ==
    /\ Stores(s, "adding", loaded \cup {"IOCTL"}, "drivers")
    /\ revived' = (revived \/ (loaded \cap FlowBits) \ ctrl_status # {})

\* The driver and the line discipline are told, and the mutex is left.
SetTermiosEnds(s) ==
    /\ setter_at[s] = "drivers" /\ setter_at' = [setter_at EXCEPT ![s] = "idle"]
    /\ termios_mutex' = None /\ old_termios' = [old_termios EXCEPT ![s] = {}]
    /\ loaded' = {}
    /\ UNCHANGED <<packet, ctrl_status, termios, termios_locked, master_at, seen, revived>>

Believed ==
    IF "DOSTOP" \in ctrl_status THEN TRUE
    ELSE IF "NOSTOP" \in ctrl_status THEN FALSE ELSE seen

\* The pty driver: a read of the master takes the status, under the slave's lock.
ReadStatus ==
    /\ packet /\ ctrl_status # {}
    /\ \A s \in Setters : setter_at[s] \in {"idle", "look", "drivers"}
    /\ ctrl_status' = {} /\ seen' = Believed
    /\ UNCHANGED <<packet, termios, termios_locked, termios_mutex, setter_at, old_termios,
                   loaded, master_at, revived>>

SetterStep(s) ==
    \/ \E new \in SUBSET Settings : SetTermios(s, new)
    \/ Looks(s) \/ Loads(s) \/ Drops(s) \/ Raises(s) \/ Adds(s) \/ SetTermiosEnds(s)

PacketNext ==
    \/ \E on \in BOOLEAN : TIOCPKT(on)
    \/ ClearStatus \/ ReadStatus
    \/ \E s \in Setters : SetterStep(s)

\* In packet mode the last status read, and the status that waits to be read,
\* tell the flow control the slave has once no change is under way.  The two
\* ends use two locks (compat-2.6.39.c:83, compat-2.6.28.c:421), and one thing
\* alone can come of it: a change that is not about flow control brings back
\* what TIOCPKT clears, and the reader is wrong until the next change that is.
\* DOSTOP and NOSTOP never wait together.
PacketAgrees ==
    /\ (packet /\ master_at = "idle" /\ termios_mutex = None) =>
           Believed = Flow(termios) \/ revived
    /\ ~(FlowBits \subseteq ctrl_status)
=============================================================================
