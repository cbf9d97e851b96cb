------------------------ MODULE N64RegisterAllocator ------------------------
(***************************************************************************)
(* A block as the recompilers build it, seen from the register allocator:  *)
(* every sequence of instructions that read and write guest registers,     *)
(* reserve host registers, call out and leave.  m is the allocator and the *)
(* machine that runs the code it emits; guest is what the guest registers  *)
(* should hold.                                                            *)
(***************************************************************************)
EXTENDS Integers, Sequences, FiniteSets

CONSTANTS Volatile, NonVolatile, ArgRegs, Guests, Junk,
          MaxSteps           \* instructions in the block

R == INSTANCE RegisterAllocatorState

ASSUME AllocatorAssumption ==
  /\ Volatile \in Seq(STRING) /\ NonVolatile \in Seq(STRING)
  /\ \A i, j \in R!Indices : R!Hosts[i] = R!Hosts[j] => i = j
  /\ \A i \in R!Indices : R!Hosts[i] \notin {"rax", "rbp"}
  /\ Len(R!Hosts) >= 2
  /\ 0 \in Guests /\ Guests \subseteq Nat
  /\ Junk \in Int
  /\ MaxSteps \in Nat

VARIABLES m, guest, confused, steps
vars == <<m, guest, confused, steps>>

HostNames == {"rax", "rbp"} \cup {R!Hosts[i] : i \in R!Indices}
Caller == [h \in HostNames |-> 90]     \* what the caller keeps in its registers
InitialGuest == [g \in Guests |-> g]
Entry ==
  [at |-> "run", stack |-> <<70>>, underflow |-> FALSE, evicted |-> FALSE,
   gpr |-> InitialGuest, host |-> Caller, bindings |-> [i \in R!Indices |-> R!Unbound],
   guest_to_host |-> [g \in Guests |-> R!None],
   next_free |-> 1, access_index |-> 0, aligned |-> TRUE, stack_space |-> FALSE]

\* The allocator hands out a register that is another guest's, or reserved.
Holds(t, g) == LET b == t.bindings[t.guest_to_host[g]] IN b.guest = g /\ ~b.reserved
Handed(t, g) == confused' = (confused \/ ~Holds(t, g))

Init ==
  /\ m = R!BlockProlog(Entry)
  /\ guest = InitialGuest
  /\ confused = FALSE
  /\ steps = 0

Step == m.at = "run" /\ steps < MaxSteps /\ steps' = steps + 1

\* An instruction that reads g.
Read(g) ==
  LET t == R!GetGpr(m, g, FALSE) IN
  /\ Step
  /\ m' = t
  /\ Handed(t, g)
  /\ UNCHANGED guest

\* An instruction that writes rd from rs: both registers are got before the
\* host register of rd is written.
Write(rd, rs) ==
  LET d == R!GetGpr(m, rd, TRUE)
      t == R!GetGpr(d, rs, FALSE)
      v == (t.host[R!HostOf(t, rs)] + 3) % 7
  IN  /\ Step
      /\ rd # 0
      /\ m' = [t EXCEPT !.host[R!HostOf(t, rd)] = v]
      /\ guest' = [guest EXCEPT ![rd] = (guest[rs] + 3) % 7]
      /\ confused' = (confused \/ ~Holds(t, rd) \/ ~Holds(t, rs))

\* An instruction that takes a host register for itself, around reading g.
Borrow(h, g) ==
  LET t == R!GetGpr(R!Reserve(m, h), g, FALSE) IN
  /\ Step
  /\ h \in {Volatile[i] : i \in 1..Len(Volatile)}
  /\ m' = R!Free([t EXCEPT !.host[h] = Junk], h)
  /\ Handed(t, g)
  /\ UNCHANGED guest

\* A call out of the block.
CallOut ==
  /\ Step
  /\ m' = R!Call(m, LAMBDA t : t)
  /\ UNCHANGED <<guest, confused>>

\* Code for one path of a run-time branch that leaves the block; the bindings
\* are kept for the other path, which goes on.
LeaveOnBranch ==
  /\ Step
  /\ m' = R!BlockEpilog(m)
  /\ UNCHANGED <<guest, confused>>
StayOnBranch ==
  /\ Step
  /\ m' = [R!BlockEpilog([m EXCEPT !.at = "skip"]) EXCEPT !.at = "run"]
  /\ UNCHANGED <<guest, confused>>

Next ==
  \/ \E g \in Guests : Read(g)
  \/ \E rd, rs \in Guests : Write(rd, rs)
  \/ \E h \in HostNames, g \in Guests : Borrow(h, g)
  \/ CallOut
  \/ LeaveOnBranch
  \/ StayOnBranch
Spec == Init /\ [][Next]_vars

(***************************************************************************)
(* Properties.                                                             *)
(***************************************************************************)
Owners(g) == {i \in R!Indices : m.bindings[i].guest = g}

\* No write is lost: through every sequence of bindings, evictions,
\* reservations and calls, a guest register that is bound is in its host
\* register and one that is not is in memory, and when the block is left all
\* of them are in memory.  It holds until the allocator hands out a register
\* that is another guest's: the one it evicted keeps its entry in
\* guest_to_host, and the first use of a register ignores a reservation.
GuestsRecoverable ==
  ~confused => \A g \in Guests \ {0} :
    IF m.at = "run" /\ Owners(g) # {}
    THEN \A i \in Owners(g) : m.host[R!Hosts[i]] = guest[g]
    ELSE m.gpr[g] = guest[g]

\* Two guests never share a host register, and a guest that has one is found
\* under it, until the first eviction.
BindingsInverse ==
  ~m.evicted => \A g \in Guests :
    Owners(g) = (IF m.guest_to_host[g] = R!None THEN {} ELSE {m.guest_to_host[g]})

(***************************************************************************)
(* The registers of the instance that TLC checks.                          *)
(***************************************************************************)
MCVolatile == <<"rcx", "rdi">>
MCNonVolatile == <<"rbx">>
MCArgRegs == <<"rdi">>
=============================================================================
