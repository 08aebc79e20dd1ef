------------------------------ MODULE Program ------------------------------
(***************************************************************************)
(* The program from main to the end: parse_args reads the options in       *)
(* order, start_router configures the interfaces and serves, router_final- *)
(* ize ends it (main.c, router.c, dpdk_init.c).  The result of parse_args  *)
(* is ignored by main, and start_router runs whatever happened before.     *)
(*                                                                         *)
(* The options are read by the parsers of Options and the routing table is *)
(* Fib.  The threads, which Router has, are the one state "serve".         *)
(***************************************************************************)
EXTENDS Options

CONSTANTS
  CommandLines,         \* sequences of options
  Capacity,             \* MAX_POSSIBLE_ROUTE_COUNT
  DevCount,             \* rte_eth_dev_count()
  NULL, Unspecified     \* of Fib

ASSUME ProgramAssumption == DevCount \in Nat /\ Capacity \in Nat

VARIABLES
  todo,         \* the options getopt has not returned yet
  last,         \* the -p or -r option read last, and what its parser returned
  accepted,     \* the routes of the -r options accepted so far (a history variable)
  int_confs,    \* the ids in the list of interface configurations
  i,            \* interfaces start_router has configured
  started,      \* the ports whose device is started
  pc,           \* "args", "configure", "serve", "end", "exit"
  pending, fib, running  \* of Fib

table == <<pending, fib, running>>
vars == <<todo, last, accepted, int_confs, i, started, pc, table>>

(***************************************************************************)
(* The 32 bits of an address are reduced to two, whether the first 24 are  *)
(* set at all and whether the last 8 are, and a prefix to none, the first  *)
(* or both: the two levels of the routing table.                           *)
(***************************************************************************)
W == 2
P == 1
Routes == [ip_addr : 0 .. 2^W - 1, prefix : 0 .. W, next_hop : Seq(Byte) \X Byte]

IsSet(groups) == IF \E k \in DOMAIN groups : groups[k] # 0 THEN 1 ELSE 0

RouteOf(val) ==
  [ip_addr |-> 2 * IsSet(SubSeq(val[1], 1, 3)) + IsSet(<<val[1][4]>>),
   prefix |-> CASE val[2] = 0 -> 0 [] val[2] \in 1 .. 24 -> P [] OTHER -> W,
   next_hop |-> <<val[3], val[4]>>]

\* A shift by the whole width leaves the address as it is, so that a /0 route is
\* spread over the table only when its low bits are clear.
Digestible(rs) == \A k \in DOMAIN rs : rs[k].prefix = 0 => rs[k].ip_addr % 2^(W - P) = 0

T == INSTANCE Fib WITH Buildable <- Digestible

Init ==
  /\ todo \in CommandLines
  /\ last = [option |-> [opt |-> "none"], ok |-> FALSE, val |-> <<>>]
  /\ accepted = <<>>
  /\ int_confs = <<>>
  /\ i = 0
  /\ started = {}
  /\ pc = "args"
  /\ T!Init

setup == <<i, started>>

Getopt(opt) ==
  /\ pc = "args"
  /\ todo # <<>>
  /\ Head(todo).opt = opt
  /\ todo' = Tail(todo)

Returned(r) == last' = [option |-> Head(todo), ok |-> r.ok, val |-> r.val]

Exists(int_id) == int_id < DevCount

\* An argument that does not parse is refused, and the next option is read.
AddInterface(r) ==
  /\ Returned(r)
  /\ int_confs' = IF r.ok /\ Exists(r.val[1]) THEN Append(int_confs, r.val[1]) ELSE int_confs
OptionP ==
  /\ Getopt("p")
  /\ AddInterface(parse_option_p(Text(Head(todo))))
  /\ UNCHANGED <<accepted, setup, pc, table>>

\* add_route ends the process when the collection is full.
AddRoute(r) ==
  /\ Returned(r)
  /\ \/ ~r.ok /\ UNCHANGED <<accepted, pc, table>>
     \/ /\ r.ok
        /\ T!Add(RouteOf(r.val))
        /\ accepted' = Append(accepted, RouteOf(r.val))
        /\ UNCHANGED pc
     \/ /\ r.ok /\ Len(pending) = Capacity
        /\ T!Fail
        /\ pc' = "exit"
        /\ UNCHANGED accepted
OptionR ==
  /\ Getopt("r")
  /\ AddRoute(parse_option_r(Text(Head(todo))))
  /\ UNCHANGED <<int_confs, setup>>

\* The default branch of parse_args: router_finalize, and no table is built.
OptionUnknownMutant ==
  /\ Getopt("?")
  /\ pc' = "configure"
  /\ UNCHANGED <<last, accepted, int_confs, setup, table>>
OptionUnknown ==
  /\ Getopt("?")
  /\ int_confs' = <<>>
  /\ pc' = "configure"
  /\ UNCHANGED <<last, accepted, setup, table>>

ArgsEnd ==
  /\ pc = "args"
  /\ todo = <<>>
  /\ \/ T!Build /\ pc' = "configure"
     \/ ~Digestible(pending) /\ T!Fail /\ pc' = "exit"
  /\ UNCHANGED <<todo, last, accepted, int_confs, setup>>

\* rte_eth_dev_configure fails on a device that is started, and
\* check_dpdk_error ends the process.
BusyMutant(int_id) == FALSE
Busy(int_id) == int_id \in started

ConfigureDevice ==
  /\ pc = "configure"
  /\ i < Len(int_confs)
  /\ IF Busy(int_confs[i + 1])
       THEN pc' = "exit" /\ UNCHANGED setup
       ELSE i' = i + 1 /\ started' = started \cup {int_confs[i + 1]} /\ UNCHANGED pc
  /\ UNCHANGED <<todo, last, accepted, int_confs, table>>

StartThreads ==
  /\ pc = "configure"
  /\ i = Len(int_confs)
  /\ pc' = "serve"
  /\ UNCHANGED <<todo, last, accepted, int_confs, setup, table>>

\* The threads are done: router_finalize.
Quit ==
  /\ pc = "serve"
  /\ int_confs' = <<>>
  /\ pc' = "end"
  /\ UNCHANGED <<todo, last, accepted, setup, table>>

Next ==
  \/ OptionP \/ OptionR \/ OptionUnknown \/ ArgsEnd
  \/ ConfigureDevice \/ StartThreads \/ Quit

Spec == Init /\ [][Next]_vars

----------------------------------------------------------------------------
\* Whatever is on the command line, a thread that has an interface to poll looks
\* addresses up in a table built from every route accepted: the default branch of
\* parse_args skips build_routing_table, and leaves no interface behind.
ServesBuiltTable ==
  pc = "serve" /\ int_confs # <<>> =>
    fib = [a \in 0 .. 2^W - 1 |-> T!LongestMatch(accepted, a)]

\* The interfaces served are distinct devices that exist: an id given twice ends the
\* process in configure_device, before any thread polls.
ServesEachPortOnce ==
  pc = "serve" =>
    /\ \A k \in DOMAIN int_confs : int_confs[k] < DevCount /\ int_confs[k] \in started
    /\ \A k, m \in DOMAIN int_confs : int_confs[k] = int_confs[m] => k = m

HasRead == last.option.opt \in {"p", "r"}

\* Every option in the usual form is accepted and read as the values it is printed
\* from: fields of every legal length are found before their separators are given
\* up on (parse_option_p, parse_option_r).
UsualFormAccepted ==
  HasRead /\ WellFormed(last.option, 1, 9) => last.ok /\ last.val = Meant(last.option)

\* An option that is accepted, whose numbers are digits that an int holds, has the
\* usual form but for empty groups and numbers, which count as zero, and is read as
\* what it says: no malformed address reaches the routing table.
AcceptedIsMeant ==
  LET o == last.option IN
  HasRead /\ last.ok /\ Plain(o.id) /\ (o.opt = "r" => Plain(o.cidr)) =>
    WellFormed(o, 0, 9) /\ last.val = Meant(o)
=============================================================================
