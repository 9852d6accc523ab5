------------------------------- MODULE FdConn -------------------------------
(***************************************************************************)
(* ProtectedDialer.getFd and fdConn (libv2ray_support.go) over the file    *)
(* descriptor table of the process: who opens which number, and who closes *)
(* it.  Several Dials run at the same time, and the kernel gives a free    *)
(* number to whoever asks next.                                            *)
(*                                                                         *)
(* The fd is owned twice from os.NewFile on: by the deferred unix.Close of *)
(* fdConn and by the os.File, whose deferred Close runs before it.         *)
(***************************************************************************)
EXTENDS Naturals, FiniteSetsExt

CONSTANTS
    Dialers,    \* threads that call Dial
    FDs,        \* file descriptor numbers: positive, so none is NoFd
    Nobody      \* the number is free: not a dialer

VARIABLES
    open,       \* the dialer each number was opened for, or Nobody
    dial        \* where each dialer is, its fd, and the fd of its connection

vars == <<open, dial>>

NoFd == 0
Idle == [at |-> "idle", fd |-> NoFd, conn |-> NoFd]

Init ==
    /\ open = [n \in FDs |-> Nobody]
    /\ dial = [d \in Dialers |-> Idle]

\* A system call returns the lowest number that is free.
Opened(d, n) ==
    /\ n = Min({m \in FDs : open[m] = Nobody})
    /\ open' = [open EXCEPT ![n] = d]

Close(n) == open' = [open EXCEPT ![n] = Nobody]

Step(d, from, to) ==
    /\ dial[d].at = from
    /\ dial' = [dial EXCEPT ![d].at = to]

-----------------------------------------------------------------------------
\* getFd
Socket(d) ==
    /\ dial[d].at = "idle"
    /\ \E n \in FDs :
         Opened(d, n) /\ dial' = [dial EXCEPT ![d] =
                                    [Idle EXCEPT !.at = "protect", !.fd = n]]

\* Protect, Bind or Connect fails: the socket has one owner, which closes it.
ConnectFails(d) == Step(d, "protect", "unix.Close") /\ UNCHANGED open

\* A number that is closed is no socket (EBADF).
Valid(d) == open[dial[d].fd] # Nobody

Connected(d) == Step(d, "protect", "file") /\ Valid(d) /\ UNCHANGED open

\* net.FileConn and net.FilePacketConn duplicate the descriptor.
FileConn(d) ==
    /\ dial[d].at = "file" /\ Valid(d)
    /\ \E n \in FDs :
         Opened(d, n) /\ dial' = [dial EXCEPT ![d].at = "file.Close",
                                              ![d].conn = n]

FileConnFails(d) == Step(d, "file", "file.Close") /\ UNCHANGED open

\* The deferred calls, the last first.
FileClose(d) == Step(d, "file.Close", "unix.Close") /\ Close(dial[d].fd)

UnixClose(d) ==
    /\ dial[d].at = "unix.Close"
    /\ Close(dial[d].fd)
    /\ dial' = [dial EXCEPT ![d].fd = NoFd,
                  ![d].at = IF dial[d].conn = NoFd THEN "idle" ELSE "returned"]

\* The core closes the connection it was given.
ConnClose(d) ==
    /\ dial[d].at = "returned"
    /\ Close(dial[d].conn)
    /\ dial' = [dial EXCEPT ![d] = Idle]

Next ==
    \E d \in Dialers :
        \/ Socket(d) \/ ConnectFails(d) \/ Connected(d)
        \/ FileConn(d) \/ FileConnFails(d)
        \/ FileClose(d) \/ UnixClose(d) \/ ConnClose(d)

Spec == Init /\ [][Next]_vars

-----------------------------------------------------------------------------
\* "Closing conn does not affect file, and closing file does not affect conn"
\* (support.go:359): the connection Dial handed to the core stays open until
\* the core closes it.
ConnStaysOpen ==
    \A d \in Dialers : dial[d].at = "returned" => open[dial[d].conn] = d

=============================================================================
