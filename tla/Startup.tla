------------------------------- MODULE Startup -------------------------------
(***************************************************************************)
(* From main() to the exit of a program: its options, the packet buffer,   *)
(* the socket (net_open_socket in common/net.c), the receiver's choice of  *)
(* its peer (net_wait_and_connect), and what is released on which way out  *)
(* (sender/main.c, receiver/main.c).  transmit() and receive() are here    *)
(* how they end; modules Sender and Receiver are about them.               *)
(***************************************************************************)
EXTENDS Naturals

CONSTANTS
  RingSize,          \* the buffer's size if no option gives another
  Sizes,             \* bound: values given to option -b
  MAX_WINDOW_SIZE,
  MaxOptions,        \* bound: options on the command line
  MaxAddresses,      \* bound: addresses a host name resolves to
  MAX_RETRIES

ASSUME StartupAssumption ==
  /\ RingSize \in Nat /\ \E k \in 0 .. 30 : RingSize = 2 ^ k
  /\ Sizes \subseteq Nat
  /\ MAX_WINDOW_SIZE \in Nat /\ MAX_WINDOW_SIZE < RingSize
  /\ MaxOptions \in Nat
  /\ MaxAddresses \in Nat \ {0}
  /\ MAX_RETRIES \in Nat \ {0}

VARIABLES
  role,         \* which of the two programs this is
  pc,           \* what main() is about to do
  options,      \* options read
  capacity,     \* size asked for the packet buffer
  max_window,   \* window asked for (receiver)
  files,        \* files opened with -f and not closed
  buffers,      \* packet buffers allocated and not freed
  fds,          \* sockets open
  addresses,    \* addresses of the list that were not tried
  addr_len,     \* room for the peer's address, as recvfrom left it
  retry_count,  \* datagrams the receiver waited for
  peer,         \* host the socket is connected to
  origin,       \* host the sender runs on
  err,          \* main()'s err
  result,       \* what transmit() or receive() came to
  exit          \* exit status of the program

options_vars == <<options, capacity, max_window>>
socket_vars == <<addresses, addr_len, retry_count, peer>>
held == <<files, buffers, fds>>
vars == <<role, pc, options_vars, held, socket_vars, origin, err, result, exit>>

\* sizeof(addr_len), that of a sockaddr_in6, and the bytes before its address.
LenSize == 4
SockaddrSize == 28
AddressOffset == 8

Hosts == {"local", "remote"}

Init ==
  /\ role \in {"sender", "receiver"}
  /\ pc = "options"
  /\ options = 0 /\ capacity = RingSize /\ max_window = MAX_WINDOW_SIZE
  /\ files = 0 /\ buffers = 0 /\ fds = 0
  /\ addresses = 0
  /\ addr_len = LenSize
  /\ retry_count = 0
  /\ peer = "none"
  /\ origin \in Hosts
  /\ err = "0"
  /\ result = "none"
  /\ exit = "none"

\* exit(), or the end of main().
Exit(code) == pc' = "ended" /\ exit' = code

Goto(label) == pc' = label /\ UNCHANGED exit

-----------------------------------------------------------------------------
(***************************************************************************)
(* parse_options                                                           *)
(***************************************************************************)
ReadOption ==
  /\ pc = "options"
  /\ options < MaxOptions
  /\ options' = options + 1
  /\ UNCHANGED <<role, socket_vars, origin, buffers, fds, result>>

\* -f: the file is opened in the place of the one that was there.
OptionFile ==
  /\ ReadOption
  /\ \/ files' = files + 1 /\ Goto("options") /\ UNCHANGED err
     \/ err' = "errno" /\ Exit(err') /\ UNCHANGED files
  /\ UNCHANGED <<capacity, max_window>>

\* Mutant: the window is not limited.
MutantAnyWindow(n) == n

LimitedWindow(n) == IF n > MAX_WINDOW_SIZE THEN MAX_WINDOW_SIZE ELSE n

\* -b: the size of the sender's ring, the receiver's window.
OptionBuf ==
  /\ ReadOption
  /\ \E n \in Sizes :
       IF role = "sender" THEN capacity' = n /\ UNCHANGED max_window
       ELSE max_window' = LimitedWindow(n) /\ UNCHANGED capacity
  /\ Goto("options")
  /\ UNCHANGED <<files, err>>

\* Anything else: the usage.
OptionOther ==
  /\ ReadOption
  /\ Exit("0")
  /\ UNCHANGED <<capacity, max_window, files, err>>

OptionsEnd ==
  /\ pc = "options"
  /\ Goto("buffer")
  /\ UNCHANGED <<role, options_vars, held, socket_vars, origin, err, result>>

-----------------------------------------------------------------------------
ValidCapacity(n) == \E k \in 0 .. 30 : n = 2 ^ k

\* pktbuf_new.  That it fails leaves err as it was.
NewBuffer ==
  /\ pc = "buffer"
  /\ \/ ~ValidCapacity(capacity) /\ Exit("1") /\ UNCHANGED buffers
     \/ ValidCapacity(capacity) /\ Goto("resolve") /\ buffers' = buffers + 1
     \/ ValidCapacity(capacity) /\ Goto("close_file") /\ UNCHANGED buffers
  /\ UNCHANGED <<role, options_vars, files, fds, socket_vars, origin, err, result>>

-----------------------------------------------------------------------------
(***************************************************************************)
(* net_open_socket                                                         *)
(***************************************************************************)
\* The receiver forgets what net_open_socket returns.
OpenFails ==
  /\ Goto("free_buffer")
  /\ err' = IF role = "sender" THEN "NET_ERROR" ELSE err

Resolve ==
  /\ pc = "resolve"
  /\ \/ addresses' \in 1 .. MaxAddresses /\ Goto("try") /\ UNCHANGED err
     \/ UNCHANGED addresses /\ OpenFails
  /\ UNCHANGED <<role, options_vars, held, addr_len, retry_count, peer, origin, result>>

\* Mutant: a socket that cannot be configured is not closed.
MutantKeepsSocket == fds' \in {fds, fds + 1}

\* The socket cannot be created; or it is, and then closed: an option cannot be
\* set, or bind() or connect() fails.
SocketDiscarded == fds' = fds

TryFails ==
  /\ pc = "try" /\ addresses > 0
  /\ addresses' = addresses - 1
  /\ SocketDiscarded
  /\ Goto("try")
  /\ UNCHANGED <<role, options_vars, files, buffers, addr_len, retry_count, peer, origin, err, result>>

\* The sender's socket is connected, the receiver's bound.
TrySucceeds ==
  /\ pc = "try" /\ addresses > 0
  /\ fds' = fds + 1
  /\ IF role = "sender" THEN Goto("loop") ELSE Goto("wait")
  /\ UNCHANGED <<role, options_vars, files, buffers, socket_vars, origin, err, result>>

NoAddressLeft ==
  /\ pc = "try" /\ addresses = 0
  /\ OpenFails
  /\ UNCHANGED <<role, options_vars, held, socket_vars, origin, result>>

-----------------------------------------------------------------------------
(***************************************************************************)
(* net_wait_and_connect: the address of a datagram is stored as far as     *)
(* there is room for it, the rest of addr stays 0; addr_len becomes the    *)
(* length of the whole address.  connect() to the address :: is a          *)
(* connection to the local host.                                           *)
(***************************************************************************)
AddressRead == IF addr_len < AddressOffset + 16 THEN "local" ELSE origin

WaitReceive ==
  /\ pc = "wait"
  /\ retry_count < MAX_RETRIES
  /\ retry_count' = retry_count + 1
  /\ addr_len' = SockaddrSize
  /\ UNCHANGED <<role, options_vars, held, addresses, origin, err>>

\* The first packet of the transfer.
WaitConnect ==
  /\ WaitReceive
  /\ peer' = AddressRead
  /\ Goto("loop")
  /\ UNCHANGED result

\* Another packet, or one that does not decode.
WaitIgnore ==
  /\ WaitReceive
  /\ Goto("wait")
  /\ UNCHANGED <<peer, result>>

\* What follows a failure of transmit() or receive().
LoopFails ==
  /\ err' = "ECONNABORTED"
  /\ result' = "failed"
  /\ Goto("close_socket")

\* Too many tries, or recvfrom() or connect() fails.
WaitFails ==
  /\ pc = "wait"
  /\ LoopFails
  /\ UNCHANGED <<role, options_vars, held, socket_vars, origin>>

\* Mutant: the result of the transfer is not kept.
MutantLoopResultLost ==
  /\ pc = "loop"
  /\ \/ result' = "done"
     \/ result' = "failed"
  /\ Goto("close_socket")
  /\ UNCHANGED <<role, options_vars, held, socket_vars, origin, err>>

\* The process ends in the middle of transmit() or receive(): an ASSERT_ALWAYS of
\* the packet buffer fails (pktbuf.c:70), or the sender reads through the NULL
\* that pktbuf_first returned (transmit.c:66).
LoopIsKilled ==
  /\ result' = "killed"
  /\ Exit("1") \/ (role = "sender" /\ Exit("signal"))
  /\ UNCHANGED err

LoopEnds ==
  /\ pc = "loop"
  /\ \/ result' = "done" /\ Goto("close_socket") /\ UNCHANGED err
     \/ LoopFails
     \/ LoopIsKilled
  /\ UNCHANGED <<role, options_vars, held, socket_vars, origin>>

-----------------------------------------------------------------------------
(***************************************************************************)
(* The labels at the end of main().                                        *)
(***************************************************************************)
CloseSocket ==
  /\ pc = "close_socket"
  /\ fds' = fds - 1
  /\ Goto("free_buffer")
  /\ UNCHANGED <<role, options_vars, files, buffers, socket_vars, origin, err, result>>

FreeBuffer ==
  /\ pc = "free_buffer"
  /\ buffers' = buffers - 1
  /\ Goto("close_file")
  /\ UNCHANGED <<role, options_vars, files, fds, socket_vars, origin, err, result>>

\* The last file opened, if it is not the standard one; then the end of main().
CloseFile ==
  /\ pc = "close_file"
  /\ files' = IF files > 0 THEN files - 1 ELSE files
  /\ Exit(err)
  /\ UNCHANGED <<role, options_vars, buffers, fds, socket_vars, origin, err, result>>

Terminated == pc = "ended" /\ UNCHANGED vars

Next ==
  \/ OptionFile \/ OptionBuf \/ OptionOther \/ OptionsEnd
  \/ NewBuffer
  \/ Resolve \/ TryFails \/ TrySucceeds \/ NoAddressLeft
  \/ WaitConnect \/ WaitIgnore \/ WaitFails
  \/ LoopEnds
  \/ CloseSocket \/ FreeBuffer \/ CloseFile
  \/ Terminated

Spec == Init /\ [][Next]_vars

-----------------------------------------------------------------------------
TypeOK ==
  /\ role \in {"sender", "receiver"}
  /\ pc \in {"options", "buffer", "resolve", "try", "wait", "loop",
             "close_socket", "free_buffer", "close_file", "ended"}
  /\ options \in 0 .. MaxOptions
  /\ files \in 0 .. MaxOptions /\ buffers \in 0 .. 1 /\ fds \in 0 .. 1
  /\ addresses \in 0 .. MaxAddresses
  /\ addr_len \in {LenSize, SockaddrSize}
  /\ retry_count \in 0 .. MAX_RETRIES
  /\ peer \in Hosts \cup {"none"} /\ origin \in Hosts
  /\ err \in {"0", "errno", "NET_ERROR", "ECONNABORTED"}
  /\ result \in {"none", "done", "failed", "killed"}
  /\ exit \in {"none", "0", "1", "signal", "errno", "NET_ERROR", "ECONNABORTED"}

\* When the loops start, their buffer and their window are what they rely on:
\* a ring whose size is a power of two, and a window it is larger than.
LoopsStartSound ==
  pc \in {"wait", "loop"} =>
    /\ fds = 1 /\ buffers = 1
    /\ ValidCapacity(capacity)
    /\ role = "receiver" => max_window < capacity /\ max_window <= MAX_WINDOW_SIZE

\* However far the start got, whatever failed, the end of main() finds the
\* socket closed and the buffer freed, each once.  A process that ends inside
\* transmit() or receive() does not come there: it leaves both to the system.
AllIsReleased == pc = "ended" /\ result # "killed" => fds = 0 /\ buffers = 0

\* The exit status of a program whose transfer started tells how it ended.
StatusIsResult == pc = "ended" /\ result # "none" => (exit = "0") = (result = "done")

\* "Wait to receive a packet with the given expected sequence number, and
\* connect to it" (net.h:35-36): the receiver answers the host that sent it.
ConnectsToSender == pc = "loop" /\ role = "receiver" => peer = origin

=============================================================================
