------------------------------ MODULE FileTable ------------------------------
(***************************************************************************)
(* The file descriptors of the hardware abstraction layer: open, close,    *)
(* ioctl with the lock for exclusive use, fcntl, read and write, and the   *)
(* redirection of the standard channels before main.                       *)
(*                                                                         *)
(* The software is built for a single thread, and no interrupt routine     *)
(* uses a descriptor: every call is one step.  A descriptor's flags are    *)
(* the set of the bits that are set.  A call on a free descriptor follows  *)
(* a null pointer, and no caller makes one.                                *)
(***************************************************************************)
EXTENDS Integers, FiniteSets

CONSTANTS MaxFds,     \* ALT_MAX_FD
          Null, Uart, \* the two devices: alt_dev_null and the JTAG UART
          OpenFlags   \* flags a program gives to open and fcntl

FilesAssumption ==
    /\ MaxFds \in Nat /\ MaxFds > 3 /\ Null # Uart /\ "free" \notin {Null, Uart}
    /\ \A f \in OpenFlags : f \subseteq {"WRONLY", "RDWR", "NONBLOCK", "APPEND", "EXCL", "DEV"}

VARIABLES device,  \* alt_fd_list[].dev
          flags,   \* alt_fd_list[].fd_flags
          maxFd,   \* alt_max_fd
          given,   \* descriptors that open returned and that were not closed
          boot,    \* how many of the standard channels alt_io_redirect has left
          result   \* what the last call came to

vars == <<device, flags, maxFd, given, boot, result>>

Fd == 0 .. MaxFds - 1
Devices == {Null, Uart}
Free == "free"
Private == {"EXCL", "DEV"}          \* ALT_FD_FLAGS_MASK
Changeable == {"APPEND", "NONBLOCK"} \* ALT_FCNTL_FLAGS_MASK
Access(f) == f \cap {"WRONLY", "RDWR"}

Init ==
    /\ device = [fd \in Fd |-> IF fd <= 2 THEN Null ELSE Free]
    /\ flags = [fd \in Fd |-> {}]
    /\ maxFd = -1
    /\ given = {}
    /\ boot = 3
    /\ result = "ok"

(***************************************************************************)
(* Descriptors.                                                            *)
(***************************************************************************)
FreeFds == {fd \in Fd : device[fd] = Free}
Lowest(S) == CHOOSE n \in S : \A m \in S : n <= m
Higher(m, n) == IF m > n THEN m ELSE n

\* Mutant: the bound of alt_fd_lock's loop, which leaves the highest out.
Locked_Bug(d, self) ==
    \E fd \in Fd : fd < maxFd /\ fd # self /\ device[fd] = d /\ "EXCL" \in flags[fd]

\* alt_file_locked, once alt_get_fd has raised the mark.
Locked(d, self) ==
    \E fd \in Fd : fd <= Higher(maxFd, self) /\ fd # self /\ device[fd] = d /\ "EXCL" \in flags[fd]

\* Mutant: what was opened keeps its descriptor when the device is locked.
Opened_Bug(d, f, fd) ==
    /\ device' = [device EXCEPT ![fd] = d]
    /\ flags' = [flags EXCEPT ![fd] = (f \ Private) \cup {"DEV"}]
    /\ given' = IF Locked(d, fd) THEN given ELSE given \cup {fd}
    /\ result' = IF Locked(d, fd) THEN "EACCES" ELSE "ok"

\* Neither device has an open() of its own.  alt_release_fd takes the
\* descriptor back when the device is locked.
Opened(d, f, fd) ==
    IF Locked(d, fd)
    THEN result' = "EACCES" /\ UNCHANGED <<device, flags, given>>
    ELSE /\ device' = [device EXCEPT ![fd] = d]
         /\ flags' = [flags EXCEPT ![fd] = (f \ Private) \cup {"DEV"}]
         /\ given' = given \cup {fd}
         /\ result' = "ok"

Open(d, f) ==
    /\ boot = 0
    /\ UNCHANGED boot
    /\ IF FreeFds = {}
       THEN result' = "EMFILE" /\ UNCHANGED <<device, flags, maxFd, given>>
       ELSE /\ maxFd' = Higher(maxFd, Lowest(FreeFds))
            /\ Opened(d, f, Lowest(FreeFds))

\* A name that no device and no file system answers to.
OpenUnknown ==
    /\ boot = 0
    /\ result' = "ENODEV"
    /\ UNCHANGED <<device, flags, maxFd, given, boot>>

\* alt_open_fd: the channel takes over what open returned, which is released.
\* alt_io_redirect does it for the output, the input and the errors.
Channel(left) == <<2, 0, 1>>[left]
Redirect ==
    /\ boot > 0
    /\ LET fd == Channel(boot) IN
           /\ device' = [device EXCEPT ![fd] = Uart]
           /\ flags' = [flags EXCEPT ![fd] = (IF fd = 0 THEN {} ELSE {"WRONLY"}) \cup {"DEV"}]
    /\ maxFd' = Higher(maxFd, Lowest(FreeFds))
    /\ boot' = boot - 1
    /\ result' = "ok"
    /\ UNCHANGED given

\* The standard channels are never released.
Release(fd) ==
    IF fd > 2
    THEN /\ device' = [device EXCEPT ![fd] = Free]
         /\ flags' = [flags EXCEPT ![fd] = {}]
         /\ given' = given \ {fd}
    ELSE UNCHANGED <<device, flags, given>>

\* The descriptor goes even where the device's close() fails, as the UART's
\* does when characters are left and the descriptor does not block.
Close(fd) ==
    /\ boot = 0 /\ device[fd] # Free
    /\ Release(fd)
    /\ result' \in {"ok"} \cup
            (IF device[fd] = Uart /\ "NONBLOCK" \in flags[fd] THEN {"EWOULDBLOCK"} ELSE {})
    /\ UNCHANGED <<maxFd, boot>>

(***************************************************************************)
(* Calls on a descriptor.                                                  *)
(***************************************************************************)
\* alt_fd_lock: the loop stops short of alt_max_fd.
Lock(fd) ==
    /\ boot = 0 /\ device[fd] # Free /\ "DEV" \in flags[fd]
    /\ IF \E other \in Fd \ {fd} : other < maxFd /\ device[other] = device[fd]
       THEN result' = "EACCES" /\ UNCHANGED flags
       ELSE result' = "ok" /\ flags' = [flags EXCEPT ![fd] = @ \cup {"EXCL"}]
    /\ UNCHANGED <<device, maxFd, given, boot>>

Unlock(fd) ==
    /\ boot = 0 /\ device[fd] # Free /\ "DEV" \in flags[fd]
    /\ flags' = [flags EXCEPT ![fd] = @ \ {"EXCL"}]
    /\ result' = "ok"
    /\ UNCHANGED <<device, maxFd, given, boot>>

\* fcntl with F_SETFL.
SetFlags(fd, f) ==
    /\ boot = 0 /\ device[fd] # Free
    /\ flags' = [flags EXCEPT ![fd] = (@ \ Changeable) \cup (f \cap Changeable)]
    /\ result' = "ok"
    /\ UNCHANGED <<device, maxFd, given, boot>>

\* A call that leaves the table alone and returns r; "driver" stands for what
\* the driver's own function returns.
Yields(fd, r) ==
    /\ boot = 0 /\ device[fd] # Free
    /\ result' = r
    /\ UNCHANGED <<device, flags, maxFd, given, boot>>

\* Only the UART can be read, and not through a descriptor for writing.
Read(fd) ==
    Yields(fd, IF Access(flags[fd]) # {"WRONLY"} /\ device[fd] = Uart THEN "driver" ELSE "EACCES")

\* Both devices take what is written, unless the descriptor is for reading.
Write(fd) == Yields(fd, IF Access(flags[fd]) # {} THEN "driver" ELSE "EACCES")

\* Requests other than the lock's are the driver's, which only the UART has.
Ioctl(fd) == Yields(fd, IF device[fd] = Uart THEN "driver" ELSE "ENOTTY")

\* Neither device can be positioned, and both are terminals.
Lseek(fd) == Yields(fd, "ENOTSUP")
Fstat(fd) == Yields(fd, "ok")
Isatty(fd) == Yields(fd, "ok")

\* fcntl with F_GETFL, and with what it does not know.
GetFlags(fd) == Yields(fd, "ok")
OtherFcntl(fd) == Yields(fd, "EINVAL")

\* What open returned when it failed is given to any of the calls.
BadDescriptor ==
    /\ boot = 0
    /\ result' = "EBADFD"
    /\ UNCHANGED <<device, flags, maxFd, given, boot>>

Next ==
    \/ Redirect
    \/ \E d \in Devices, f \in OpenFlags : Open(d, f)
    \/ OpenUnknown \/ BadDescriptor
    \/ \E fd \in Fd :
          \/ Close(fd) \/ Lock(fd) \/ Unlock(fd)
          \/ \E f \in OpenFlags : SetFlags(fd, f)
          \/ Read(fd) \/ Write(fd) \/ Ioctl(fd) \/ Lseek(fd) \/ Fstat(fd) \/ Isatty(fd)
          \/ GetFlags(fd) \/ OtherFcntl(fd)

Spec == Init /\ [][Next]_vars

(***************************************************************************)
(* Properties.                                                             *)
(***************************************************************************)
Results == {"ok", "driver", "EACCES", "EMFILE", "ENODEV", "EBADFD", "EINVAL", "ENOTTY", "ENOTSUP",
            "EWOULDBLOCK"}

\* Types of all variables.
TypeOK ==
    /\ device \in [Fd -> Devices \cup {Free}]
    /\ flags \in [Fd -> SUBSET {"WRONLY", "RDWR", "NONBLOCK", "APPEND", "EXCL", "DEV"}]
    /\ maxFd \in -1 .. MaxFds - 1 /\ given \subseteq Fd
    /\ boot \in 0 .. 3 /\ result \in Results

\* Whatever fails on the way, the descriptors in use are those the program
\* holds and the three channels: none is lost when a device is locked or a
\* channel redirected, and none comes back with the flags of its last owner
\* (alt_open.c:161-166, alt_release_fd.c:44-51).  All lie below the mark.
FilesKept ==
    /\ {fd \in Fd : fd > 2 /\ device[fd] # Free} = given
    /\ \A fd \in Fd : device[fd] = Free => flags[fd] = {}
    /\ \A fd \in given : fd <= maxFd
    /\ boot = 0 => \A fd \in Fd : device[fd] # Free => "DEV" \in flags[fd]

Users(d) == {fd \in Fd : device[fd] = d}

\* While a descriptor holds the lock, its device gets no new user: "Further
\* calls to open() for this device will fail until the lock is released"
\* (alt_fd_lock.c:44-45).  A descriptor keeps the access it was opened with:
\* "Only the flags: O_APPEND and O_NONBLOCK can be updated by a call to
\* fcntl()" (alt_fcntl.c:59-60), so that no one is locked out or let in by it.
LocksHold ==
    [][/\ \A fd \in Fd : "EXCL" \in flags[fd] /\ "EXCL" \in flags'[fd]
             => Users(device[fd])' \subseteq Users(device[fd])
       /\ boot = 0 => \A fd \in Fd : device[fd] # Free /\ device'[fd] # Free
             => /\ Access(flags'[fd]) = Access(flags[fd])
                /\ "DEV" \in flags'[fd]]_vars

\* "If there are no other open file descriptors which reference the same
\* device, then alt_fd_lock() will grant the lock" (alt_fd_lock.c:43-44): who
\* holds it is the device's only user.
LockedAlone == \A fd \in Fd : "EXCL" \in flags[fd] => Users(device[fd]) = {fd}
=============================================================================
