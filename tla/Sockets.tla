------------------------------- MODULE Sockets -------------------------------
(***************************************************************************)
(* Socket objects (kngin/net/socket.h) and the descriptors of the kernel   *)
(* that they own: construction, move, accept, close, shutdown, the         *)
(* descriptor flags and the options of sockopts.  A call that fails and    *)
(* leaves everything as it was is not a step.                              *)
(***************************************************************************)
EXTENDS FiniteSets

CONSTANTS
  Socks,      \* the socket objects
  Fds,        \* the numbers the kernel gives to descriptors
  OptionsUsed \* the options that are set in the instance

-----------------------------------------------------------------------------
(* The options, by the group of functions that get and set them.           *)
SocketOptions ==
  {"broadcast", "debug", "dontroute", "keepalive", "linger", "oobinline"}
SizeOptions == {"rcvbuf", "sndbuf", "rcvlowat", "sndlowat"}
TimeoutOptions == {"rcvtimeo", "sndtimeo"}
ReuseOptions == {"reuseaddr", "reuseport"}
IpOptions == {"ip_tos", "ip_ttl", "ipv6_v6only"}
TcpOptions == {"tcp_maxseg", "tcp_nodelay"}
OptsEntry == UNION {SocketOptions, SizeOptions, TimeoutOptions, ReuseOptions,
                    IpOptions, TcpOptions}
FdFlags == {"nonblock", "closeexec"}

Invalid == "invalid"

ASSUME SocketsAssumption ==
  /\ OptionsUsed \subseteq OptsEntry \cup FdFlags
  /\ Invalid \notin Fds

VARIABLES
  handle,    \* handle_ of the objects
  sflags,    \* flags_ of the objects
  open,      \* the descriptors that are open
  kernel,    \* kernel[f]: domain and type, state, write side, options
  want,      \* want[s]: the options that were switched on through s
  refused,   \* descriptors that accept() dropped without closing them
  thrown     \* a close() that throws has failed

sockVars == <<handle, sflags, open, kernel, want, refused, thrown>>

Protos == SUBSET {"udp", "ipv6"}   \* flag_udp, flag_ipv6
ProtoOf(fl) == fl \ {"shutdown"}

FreshDescriptor(proto) ==
  [proto |-> proto, state |-> "fresh", shut |-> FALSE, opts |-> {}]

SocketsInit ==
  /\ handle = [s \in Socks |-> Invalid]
  /\ sflags = [s \in Socks |-> {}]
  /\ open = {}
  /\ kernel = [f \in Fds |-> FreshDescriptor({})]
  /\ want = [s \in Socks |-> {}]
  /\ refused = {}
  /\ thrown = FALSE

(* closed(), and what the assertions at the head of most functions allow.  *)
Closed(s) == handle[s] = Invalid
IsShutdown(s) == "shutdown" \in sflags[s]
Tcp(s) == "udp" \notin sflags[s]
InState(s, states) ==
  ~Closed(s) /\ handle[s] \in open /\ kernel[handle[s]].state \in states

-----------------------------------------------------------------------------
(* socket (inet_protocol): the object is made with a new descriptor.       *)
Construct(s, proto, f) ==
  /\ Closed(s) /\ f \notin open
  /\ handle' = [handle EXCEPT ![s] = f]
  /\ sflags' = [sflags EXCEPT ![s] = proto]
  /\ open' = open \cup {f}
  /\ kernel' = [kernel EXCEPT ![f] = FreshDescriptor(proto)]
  /\ want' = [want EXCEPT ![s] = {}]
  /\ UNCHANGED <<refused, thrown>>

(* Faulty variant: the descriptor stays with the source as well.           *)
MoveCopies(s, t) ==
  /\ Closed(s) /\ ~Closed(t)
  /\ handle' = [handle EXCEPT ![s] = handle[t]]
  /\ sflags' = [sflags EXCEPT ![s] = sflags[t]]
  /\ want' = [want EXCEPT ![s] = want[t]]
  /\ UNCHANGED <<open, kernel, refused, thrown>>

(* socket (socket &&): swapped with what a new object holds.               *)
Move(s, t) ==
  /\ Closed(s) /\ ~Closed(t)
  /\ handle' = [handle EXCEPT ![s] = handle[t], ![t] = Invalid]
  /\ sflags' = [sflags EXCEPT ![s] = sflags[t], ![t] = {}]
  /\ want' = [want EXCEPT ![s] = want[t], ![t] = {}]
  /\ UNCHANGED <<open, kernel, refused, thrown>>

Bind(s) ==
  /\ InState(s, {"fresh"})
  /\ kernel' = [kernel EXCEPT ![handle[s]].state = "bound"]
  /\ UNCHANGED <<handle, sflags, open, want, refused, thrown>>

Listen(s) ==
  /\ InState(s, {"fresh", "bound"}) /\ Tcp(s)
  /\ kernel' = [kernel EXCEPT ![handle[s]].state = "listening"]
  /\ UNCHANGED <<handle, sflags, open, want, refused, thrown>>

Connect(s) ==
  /\ InState(s, {"fresh", "bound"})
  /\ kernel' = [kernel EXCEPT ![handle[s]].state = "connected"]
  /\ UNCHANGED <<handle, sflags, open, want, refused, thrown>>

(* accept(): the connection's descriptor goes to s, with the protocol of   *)
(* the listening socket.  If its address is of another family the function *)
(* fails and the descriptor, which is open, goes nowhere.                  *)
Accept(l, s, f) ==
  /\ InState(l, {"listening"}) /\ Closed(s) /\ f \notin open
  /\ open' = open \cup {f}
  /\ kernel' = [kernel EXCEPT ![f] =
                  [FreshDescriptor(ProtoOf(sflags[l])) EXCEPT
                     !.state = "connected"]]
  /\ \/ /\ handle' = [handle EXCEPT ![s] = f]
        /\ sflags' = [sflags EXCEPT ![s] = ProtoOf(sflags[l])]
        /\ want' = [want EXCEPT ![s] = {}]
        /\ UNCHANGED refused
     \/ /\ refused' = refused \cup {f}
        /\ UNCHANGED <<handle, sflags, want>>
  /\ UNCHANGED thrown

(* accept() with an error_code, which clears s whether or not it fails.    *)
AcceptFails(l, s) ==
  /\ ~Closed(l) /\ Closed(s)
  /\ sflags' = [sflags EXCEPT ![s] = {}]
  /\ UNCHANGED <<handle, open, kernel, want, refused, thrown>>

(* ::close(): the number is free afterwards, whatever it returns.          *)
KernelClose(s) ==
  /\ open' = open \ {handle[s]}
  /\ kernel' = [kernel EXCEPT ![handle[s]] = FreshDescriptor({})]

(* close() with an error_code: the object gives up the descriptor also     *)
(* when ::close() returned an error.                                       *)
CloseEc(s) ==
  /\ ~Closed(s)
  /\ KernelClose(s)
  /\ handle' = [handle EXCEPT ![s] = Invalid]
  /\ sflags' = [sflags EXCEPT ![s] = @ \cup {"shutdown"}]
  /\ want' = [want EXCEPT ![s] = {}]
  /\ UNCHANGED <<refused, thrown>>

(* close() that throws when ::close() fails: the object keeps the number.  *)
CloseThrows(s) ==
  /\ ~Closed(s)
  /\ KernelClose(s)
  /\ sflags' = [sflags EXCEPT ![s] = @ \cup {"shutdown"}]
  /\ thrown' = TRUE
  /\ UNCHANGED <<handle, want, refused>>

(* ~socket() closes what is open and swallows the exception.               *)
Destroy(s) ==
  /\ IF Closed(s) THEN UNCHANGED <<open, kernel>> ELSE KernelClose(s)
  /\ handle' = [handle EXCEPT ![s] = Invalid]
  /\ sflags' = [sflags EXCEPT ![s] = {}]
  /\ want' = [want EXCEPT ![s] = {}]
  /\ UNCHANGED <<refused, thrown>>

(* shutdown(): the flag is set only if ::shutdown() succeeded.             *)
Shutdown(s) ==
  /\ InState(s, {"connected"})
  /\ kernel' = [kernel EXCEPT ![handle[s]].shut = TRUE]
  /\ sflags' = [sflags EXCEPT ![s] = @ \cup {"shutdown"}]
  /\ UNCHANGED <<handle, open, want, refused, thrown>>

(* setsockopt(), fcntl(): what any of the setters does to the descriptor.  *)
SwitchOption(s, o, on) ==
  /\ ~Closed(s) /\ handle[s] \in open
  /\ kernel' = [kernel EXCEPT ![handle[s]].opts =
                  IF on THEN @ \cup {o} ELSE @ \ {o}]
  /\ want' = [want EXCEPT ![s] = IF on THEN @ \cup {o} ELSE @ \ {o}]
  /\ UNCHANGED <<handle, sflags, open, refused, thrown>>

(* sockopts::set_flag(), set_int(), set_linger(), set_timeval()            *)
SetOption(s, o, on) == o \in OptsEntry /\ SwitchOption(s, o, on)

(* set_nonblock(), set_closeexec()                                         *)
SetFdFlag(s, o, on) == o \in FdFlags /\ SwitchOption(s, o, on)

(* The getters: sockopts::get_flag() and the others; nonblock() and        *)
(* closeexec(), which ask fcntl().                                         *)
Option(s, o) == o \in OptsEntry /\ o \in kernel[handle[s]].opts
FdFlag(s, o) == o \in FdFlags /\ o \in kernel[handle[s]].opts

(* What follows a close() that threw is not explored: its object holds a   *)
(* number that the next descriptor may get, and may close it.              *)
SocketsNext ==
  /\ ~thrown
  /\ \/ \E s \in Socks, f \in Fds, proto \in Protos : Construct(s, proto, f)
     \/ \E s, t \in Socks : Move(s, t)
     \/ \E l, s \in Socks : AcceptFails(l, s) \/ \E f \in Fds : Accept(l, s, f)
     \/ \E s \in Socks :
          \/ Bind(s) \/ Listen(s) \/ Connect(s) \/ Shutdown(s)
          \/ CloseEc(s) \/ CloseThrows(s) \/ Destroy(s)
     \/ \E s \in Socks, o \in OptionsUsed, on \in BOOLEAN :
          SetOption(s, o, on) \/ SetFdFlag(s, o, on)

SocketsSpec == SocketsInit /\ [][SocketsNext]_sockVars

-----------------------------------------------------------------------------
(* Every open descriptor has one owner, the one that closes it, unless     *)
(* accept() dropped it; every object that holds a descriptor holds an open *)
(* one, and what the object says about its protocol, its write side and    *)
(* its options is what the kernel has.  Only a close() that throws ends it: *)
(* the object then holds a number whose descriptor is gone.                *)
SocketsOwnDescriptors ==
  ~thrown =>
    /\ \A f \in open \ refused : \E s \in Socks : handle[s] = f
    /\ \A s \in Socks :
         ~Closed(s) =>
           LET k == kernel[handle[s]]
           IN  /\ handle[s] \in open \ refused
               /\ \A t \in Socks \ {s} : handle[t] # handle[s]
               /\ ProtoOf(sflags[s]) = k.proto
               /\ IsShutdown(s) <=> k.shut
               /\ \A o \in OptionsUsed :
                    Option(s, o) \/ FdFlag(s, o) <=> o \in want[s]

=============================================================================
