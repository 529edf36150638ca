-------------------------- MODULE MCEngineLifecycle --------------------------
(* Instances of EngineLifecycle for TLC, and of the choice of memory. *)
EXTENDS EngineLifecycle, TLC, MemoryTypes

Symmetry == Permutations(Context) \cup Permutations(Tensor)

Flags == SUBSET {"device", "visible", "coherent", "cached"}

ASSUME MemoryIsFound ==
  \A types \in [1 .. 3 -> Flags], allowed \in SUBSET (1 .. 3) :
    FoundServes(types, allowed, Mapped) /\ FoundServes(types, allowed, DeviceLocal)

Heaps == [1 .. 2 -> [size : 0 .. 3, local : BOOLEAN]]

\* Only a device all of whose heaps are empty has no memory.
ASSUME MemoryIsCounted ==
  \A heaps \in Heaps :
    TotalDeviceMemory(heaps) = 0 <=> \A i \in DOMAIN heaps : heaps[i].size = 0

=============================================================================
