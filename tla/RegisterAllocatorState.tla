----------------------- MODULE RegisterAllocatorState -----------------------
(***************************************************************************)
(* The register allocator of the recompilers                               *)
(* (src/mips/register_allocator_state.hpp and the wrapper of it in         *)
(* src/n64/vr4300/register_allocator.cpp), as functions of the state m of  *)
(* a block that is being emitted and run.  Emission decides the bindings   *)
(* of guest to host registers; the loads, stores, pushes and pops it emits *)
(* take effect on m.host, m.gpr and m.stack only where the emitted code is *)
(* reached, that is while m.at = "run": a jump over them sets m.at to the  *)
(* label it goes to.  The bindings change all the same.                    *)
(***************************************************************************)
EXTENDS Integers, Sequences, FiniteSets

CONSTANTS
  Volatile,      \* the host registers a call clobbers, in binding order
  NonVolatile,   \* the host registers a call and a block preserve
  ArgRegs,       \* host_gpr_arg, in argument order
  Guests,        \* the guest registers, 0 among them
  Junk           \* what a clobbered host register holds

None == -1
Hosts == Volatile \o NonVolatile
Indices == 1..Len(Hosts)
IsVolatile(i) == i <= Len(Volatile)
IndexOf(h) == CHOOSE i \in Indices : Hosts[i] = h
IsBindable(h) == \E i \in Indices : Hosts[i] = h
Running(m) == m.at = "run"
Occupied(b) == b.guest # None
Unbound == [guest |-> None, access |-> 0, dirty |-> FALSE, reserved |-> FALSE]

\* Reset and FillBindings: what BlockProlog starts a block with.
Reset(m) ==
  [m EXCEPT !.bindings = [i \in Indices |-> Unbound],
            !.guest_to_host = [g \in Guests |-> None],
            !.next_free = 1, !.access_index = 0, !.aligned = TRUE,
            !.stack_space = FALSE]

Push(m, v) == IF Running(m) THEN [m EXCEPT !.stack = <<v>> \o @] ELSE m
\* c.pop(host): a pop from the caller's stack yields what the caller left.
Pop(m, h) ==
  IF ~Running(m) THEN m
  ELSE IF m.stack = <<>> THEN [m EXCEPT !.host[h] = Junk, !.underflow = TRUE]
  ELSE [m EXCEPT !.host[h] = Head(m.stack), !.stack = Tail(m.stack)]

\* Flush: store the binding when dirty, give the host register back.
FaultyFlush(m, i, restore) ==
  LET b == m.bindings[i] IN
  IF Occupied(b) /\ b.dirty /\ restore /\ Running(m)
  THEN [m EXCEPT !.gpr[b.guest] = m.host[Hosts[i]]] ELSE m
Flush(m, i, restore) ==
  LET b == m.bindings[i]
      stored == IF Occupied(b) /\ b.dirty /\ Running(m)
                THEN [m EXCEPT !.gpr[b.guest] = m.host[Hosts[i]]] ELSE m
  IN  IF Occupied(b) /\ restore /\ ~IsVolatile(i) THEN Pop(stored, Hosts[i]) ELSE stored

FaultyResetBinding(m, i) ==
  IF Occupied(m.bindings[i])
  THEN [m EXCEPT !.bindings[i].dirty = FALSE, !.bindings[i].guest = None] ELSE m
ResetBinding(m, i) ==
  IF Occupied(m.bindings[i])
  THEN [m EXCEPT !.guest_to_host[m.bindings[i].guest] = None,
                 !.bindings[i].dirty = FALSE, !.bindings[i].guest = None]
  ELSE m
FlushAndDestroyBinding(m, i, restore) == ResetBinding(Flush(m, i, restore), i)

\* The loops over the bindings, in binding order.
ForEach(m, Op(_, _), last) ==
  LET after[i \in 0..last] == IF i = 0 THEN m ELSE Op(after[i - 1], i) IN after[last]
FlushAndDestroyAllVolatile(m) ==
  ForEach(m, LAMBDA t, i : FlushAndDestroyBinding(t, i, FALSE), Len(Volatile))
FlushAndRestoreAll(m) == ForEach(m, LAMBDA t, i : Flush(t, i, TRUE), Len(Hosts))
DestroyVolatile(m, h) == FlushAndDestroyBinding(m, IndexOf(h), FALSE)

Reserve(m, h) ==
  IF IsBindable(h)
  THEN [FlushAndDestroyBinding(m, IndexOf(h), TRUE)
          EXCEPT !.bindings[IndexOf(h)].reserved = TRUE]
  ELSE m
Free(m, h) ==
  IF IsBindable(h) THEN [m EXCEPT !.bindings[IndexOf(h)].reserved = FALSE] ELSE m
ReserveArgs(m, n) == ForEach(m, LAMBDA t, i : Reserve(t, ArgRegs[i]), n)
FreeArgs(m, n) == ForEach(m, LAMBDA t, i : Free(t, ArgRegs[i]), n)

\* The binding a guest gets: the next one never used, whether reserved or
\* not; when all were used, the first free one, else the one used longest ago.
Candidates(m) == {i \in Indices : ~m.bindings[i].reserved}
Vacant(m) == {i \in Candidates(m) : ~Occupied(m.bindings[i])}
First(S) == CHOOSE i \in S : \A k \in S : i <= k
Oldest(m) ==
  CHOOSE i \in Candidates(m) : \A k \in Candidates(m) :
    \/ m.bindings[i].access < m.bindings[k].access
    \/ m.bindings[i].access = m.bindings[k].access /\ i <= k

\* SetupGprStackSpace and SaveHost: a host register that must be preserved is
\* pushed when a guest first gets it.  m.aligned is the emitter's own count.
Saved(m, i) ==
  [(IF m.stack_space THEN Push(m, m.host[Hosts[i]])
    ELSE Push(Push([m EXCEPT !.stack_space = TRUE], Junk), m.host[Hosts[i]]))
     EXCEPT !.aligned = ~@]
LoadGuest(m, i, g) ==
  IF Running(m) THEN [m EXCEPT !.host[Hosts[i]] = IF g = 0 THEN 0 ELSE m.gpr[g]] ELSE m

Bind(m, i, g, mark_dirty) ==
  [m EXCEPT !.bindings[i].guest = g, !.bindings[i].access = m.access_index,
            !.bindings[i].dirty = mark_dirty, !.access_index = @ + 1,
            !.guest_to_host[g] = i]
BindVacant(m, i, g, mark_dirty) ==
  LET t == Bind(m, i, g, mark_dirty) IN LoadGuest(IF IsVolatile(i) THEN t ELSE Saved(t, i), i, g)
\* The guest that is evicted keeps its entry in guest_to_host.
Evict(m, i, g, mark_dirty) ==
  LoadGuest(Bind([Flush(m, i, FALSE) EXCEPT !.evicted = TRUE], i, g, mark_dirty), i, g)

\* GetGpr and GetDirtyGpr; the host register is then HostOf(m, g).
GetGpr(m, g, mark_dirty) ==
  CASE m.guest_to_host[g] # None ->
         LET i == m.guest_to_host[g] IN
         [m EXCEPT !.bindings[i].access = m.access_index, !.access_index = @ + 1,
                   !.bindings[i].dirty = @ \/ mark_dirty]
    [] m.guest_to_host[g] = None /\ m.next_free <= Len(Hosts) ->
         BindVacant([m EXCEPT !.next_free = @ + 1], m.next_free, g, mark_dirty)
    [] m.guest_to_host[g] = None /\ m.next_free > Len(Hosts) /\ Vacant(m) # {} ->
         BindVacant(m, First(Vacant(m)), g, mark_dirty)
    [] OTHER -> Evict(m, Oldest(m), g, mark_dirty)
HostOf(m, g) == Hosts[m.guest_to_host[g]]

\* Call emits the call only when the emitter counts the stack as aligned,
\* CallWithStackAlignment only when it does not (and saves rax, which comes
\* back in rcx).  A call clobbers every volatile register.
Clobber(m) == [m EXCEPT !.host = [h \in DOMAIN @ |->
                 IF h = "rax" \/ \E i \in 1..Len(Volatile) : Volatile[i] = h THEN Junk ELSE @[h]]]
Call(m, Effect(_)) ==
  LET t == FlushAndDestroyAllVolatile(m) IN
  IF t.aligned /\ Running(t) THEN Effect(Clobber(t)) ELSE t
CallWithStackAlignment(m, Effect(_)) ==
  LET t == FlushAndDestroyAllVolatile(m) IN
  IF t.aligned THEN t
  ELSE Pop(IF Running(t) THEN Effect(Clobber(Push(t, t.host["rax"]))) ELSE t, "rcx")

\* BlockProlog saves the register that points at the guest registers and
\* takes the pointer from the first argument; BlockEpilog gives it back.
BlockProlog(m) == LET t == Reset(m) IN
  IF Running(m) THEN [Push(t, m.host["rbp"]) EXCEPT !.host["rbp"] = 0] ELSE t
BlockEpilog(m) ==
  LET t == Pop(FlushAndRestoreAll(m), "rbp") IN
  IF Running(m) THEN [t EXCEPT !.at = "left"] ELSE t
=============================================================================
