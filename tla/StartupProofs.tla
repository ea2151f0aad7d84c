--------------------------- MODULE StartupProofs ---------------------------
(***************************************************************************)
(* The invariants of a program's start and end, for every number of        *)
(* options, addresses and retries and every size of the buffer.            *)
(***************************************************************************)
EXTENDS Startup, TLAPS

\* Where main() holds a socket, and a packet buffer.
WithSocket == {"wait", "loop", "close_socket"}
WithBuffer == WithSocket \cup {"resolve", "try", "free_buffer"}

\* What main() holds depends on where it is alone, unless it was killed.
HeldWherePcSays ==
  /\ files <= options
  /\ fds = IF pc \in WithSocket \/ result = "killed" THEN 1 ELSE 0
  /\ buffers = IF pc \in WithBuffer \/ result = "killed" THEN 1 ELSE 0

\* Only -b changes a size, and each program only its own.
SizesAreSound ==
  /\ pc \in WithBuffer => ValidCapacity(capacity)
  /\ max_window \in Nat /\ max_window <= MAX_WINDOW_SIZE
  /\ role = "receiver" => capacity = RingSize

BeforeTheEnd == {"options", "buffer", "resolve", "try", "wait", "loop"}

\* err is what the loop came to, from its end to that of main().  A loop that is
\* killed has neither, and its status is not 0.
ErrIsResult ==
  /\ pc \in BeforeTheEnd => result = "none" /\ err = "0"
  /\ result \in {"done", "failed"} => (err = "0") = (result = "done")
  /\ pc = "ended" /\ result \in {"done", "failed"} => exit = err
  /\ result = "killed" => pc = "ended" /\ exit \in {"1", "signal"}

IInv == TypeOK /\ HeldWherePcSays /\ SizesAreSound /\ ErrIsResult

-----------------------------------------------------------------------------
LEMMA InitInvariant ==
  ASSUME Init
  PROVE  IInv
PROOF
  BY StartupAssumption
  DEF StartupAssumption, Init, IInv, TypeOK, HeldWherePcSays, SizesAreSound, ErrIsResult,
      BeforeTheEnd, WithBuffer, WithSocket, LenSize, SockaddrSize, Hosts

\* The steps of parse_options.
LEMMA OptionsKeepInvariant ==
  ASSUME IInv, OptionFile \/ OptionBuf \/ OptionOther \/ OptionsEnd
  PROVE  IInv'
PROOF
  <1> USE StartupAssumption
      DEF StartupAssumption, IInv, TypeOK, HeldWherePcSays, SizesAreSound, ErrIsResult,
          BeforeTheEnd, WithBuffer, WithSocket, ReadOption, Goto, Exit,
          socket_vars, options_vars, held
  <1>1. CASE OptionFile
    BY <1>1 DEF OptionFile
  <1>2. CASE OptionBuf
    <2>1. PICK n \in Sizes : IF role = "sender" THEN capacity' = n /\ UNCHANGED max_window
                             ELSE max_window' = LimitedWindow(n) /\ UNCHANGED capacity
      BY <1>2 DEF OptionBuf
    <2>2. LimitedWindow(n) \in Nat /\ LimitedWindow(n) <= MAX_WINDOW_SIZE
      BY DEF LimitedWindow
    <2> QED
      BY <1>2, <2>1, <2>2 DEF OptionBuf
  <1>3. CASE OptionOther
    BY <1>3 DEF OptionOther
  <1>4. CASE OptionsEnd
    BY <1>4 DEF OptionsEnd
  <1> QED
    BY <1>1, <1>2, <1>3, <1>4

\* The steps of pktbuf_new and net_open_socket.
LEMMA OpeningKeepsInvariant ==
  ASSUME IInv, NewBuffer \/ Resolve \/ TryFails \/ TrySucceeds \/ NoAddressLeft
  PROVE  IInv'
PROOF
  <1> USE StartupAssumption
      DEF StartupAssumption, IInv, TypeOK, HeldWherePcSays, SizesAreSound, ErrIsResult,
          BeforeTheEnd, WithBuffer, WithSocket, Goto, Exit, OpenFails,
          socket_vars, options_vars, held
  <1>1. CASE NewBuffer
    BY <1>1 DEF NewBuffer
  <1>2. CASE Resolve
    BY <1>2 DEF Resolve
  <1>3. CASE TryFails
    BY <1>3 DEF TryFails, SocketDiscarded
  <1>4. CASE TrySucceeds
    BY <1>4 DEF TrySucceeds
  <1>5. CASE NoAddressLeft
    BY <1>5 DEF NoAddressLeft
  <1> QED
    BY <1>1, <1>2, <1>3, <1>4, <1>5

\* The steps of net_wait_and_connect and the end of the loop.
LEMMA LoopKeepsInvariant ==
  ASSUME IInv, WaitConnect \/ WaitIgnore \/ WaitFails \/ LoopEnds
  PROVE  IInv'
PROOF
  <1> USE StartupAssumption
      DEF StartupAssumption, IInv, TypeOK, HeldWherePcSays, SizesAreSound, ErrIsResult,
          BeforeTheEnd, WithBuffer, WithSocket, Goto, WaitReceive, LoopFails,
          socket_vars, options_vars, held, LenSize, SockaddrSize
  <1>1. CASE WaitConnect
    <2>1. AddressRead \in Hosts
      BY DEF AddressRead, Hosts
    <2> QED
      BY <1>1, <2>1 DEF WaitConnect
  <1>2. CASE WaitIgnore
    BY <1>2 DEF WaitIgnore
  <1>3. CASE WaitFails
    BY <1>3 DEF WaitFails
  <1>4. CASE LoopEnds
    BY <1>4 DEF LoopEnds, LoopIsKilled, Exit
  <1> QED
    BY <1>1, <1>2, <1>3, <1>4

\* The labels at the end of main().
LEMMA CleanupKeepsInvariant ==
  ASSUME IInv, CloseSocket \/ FreeBuffer \/ CloseFile \/ Terminated
  PROVE  IInv'
PROOF
  <1> USE StartupAssumption
      DEF StartupAssumption, IInv, TypeOK, HeldWherePcSays, SizesAreSound, ErrIsResult,
          BeforeTheEnd, WithBuffer, WithSocket, Goto, Exit,
          socket_vars, options_vars, held
  <1>1. CASE CloseSocket
    BY <1>1 DEF CloseSocket
  <1>2. CASE FreeBuffer
    BY <1>2 DEF FreeBuffer
  <1>3. CASE CloseFile
    BY <1>3 DEF CloseFile
  <1>4. CASE Terminated
    BY <1>4 DEF Terminated, vars
  <1> QED
    BY <1>1, <1>2, <1>3, <1>4

LEMMA NextInvariant ==
  ASSUME IInv, [Next]_vars
  PROVE  IInv'
PROOF
  <1>1. CASE UNCHANGED vars
    BY <1>1
    DEF vars, options_vars, held, socket_vars, IInv, TypeOK, HeldWherePcSays,
        SizesAreSound, ErrIsResult
  <1>2. CASE Next
    BY <1>2, OptionsKeepInvariant, OpeningKeepsInvariant, LoopKeepsInvariant,
       CleanupKeepsInvariant
    DEF Next
  <1> QED
    BY <1>1, <1>2

\* IInv is an inductive invariant: main() never loses track of what it holds,
\* and err is 0 until the loop or the start has failed.
THEOREM StartupInvariant == Spec => []IInv
PROOF
  <1>1. Init => IInv
    BY InitInvariant
  <1>2. IInv /\ [Next]_vars => IInv'
    BY NextInvariant
  <1> QED
    BY <1>1, <1>2, PTL DEF Spec

-----------------------------------------------------------------------------
\* The types of main()'s variables; no more than one socket and one buffer are
\* ever held.
THEOREM StartupTypeOK == Spec => []TypeOK
PROOF
  <1>1. IInv => TypeOK
    BY DEF IInv
  <1> QED
    BY <1>1, StartupInvariant, PTL

\* transmit() and receive() are only called with a socket, a buffer pktbuf_new
\* has accepted and a window smaller than it.
THEOREM StartupLoopsStartSound == Spec => []LoopsStartSound
PROOF
  <1>1. IInv => LoopsStartSound
    BY StartupAssumption
    DEF StartupAssumption, IInv, HeldWherePcSays, SizesAreSound, LoopsStartSound,
        WithBuffer, WithSocket
  <1> QED
    BY <1>1, StartupInvariant, PTL

\* No way out of main() leaves the socket open or the buffer allocated, or
\* closes or frees one twice; only an exit inside the loops does.
THEOREM StartupAllIsReleased == Spec => []AllIsReleased
PROOF
  <1>1. IInv => AllIsReleased
    BY DEF IInv, HeldWherePcSays, AllIsReleased, WithBuffer, WithSocket
  <1> QED
    BY <1>1, StartupInvariant, PTL

\* The exit status of a program whose transfer started is 0 exactly if the
\* transfer succeeded.
THEOREM StartupStatusIsResult == Spec => []StatusIsResult
PROOF
  <1>1. IInv => StatusIsResult
    BY DEF IInv, TypeOK, ErrIsResult, StatusIsResult
  <1> QED
    BY <1>1, StartupInvariant, PTL

=============================================================================
