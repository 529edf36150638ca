------------------------------ MODULE MemoryTypes ------------------------------
(***************************************************************************)
(* How a buffer finds its memory, find_memory_type of src/src/compute.rs,  *)
(* and how much a device is said to have, total_device_memory of           *)
(* src/src/device.rs.                                                      *)
(***************************************************************************)
EXTENDS Naturals, Sequences, FiniteSets, FiniteSetsExt

\* A memory type is the set of its property flags; types is the device's table,
\* allowed the indices its requirements name.

\* The first type that has all the flags of a pass.
FirstWith(types, allowed, pass) ==
  LET fit == {i \in DOMAIN types : i \in allowed /\ pass \subseteq types[i]}
  IN  IF fit = {} THEN {} ELSE {Min(fit)}

\* find_memory_type: the index found, or nothing.
FindMemoryType(types, allowed, required, preferred) ==
  LET best == FirstWith(types, allowed, preferred \cup required)
  IN  IF best # {} THEN best ELSE FirstWith(types, allowed, required)

\* Of heaps, each with a size and whether it is local to the device.
TotalDeviceMemory(heaps) ==
  LET local == MapThenSumSet(LAMBDA i : heaps[i].size,
                             {i \in DOMAIN heaps : heaps[i].local})
  IN  IF local > 0 THEN local
      ELSE Max({0} \cup {heaps[i].size : i \in DOMAIN heaps})

\* The flags Buffer::staging and BufferPool::get ask for, and device_local.
Mapped == [required |-> {"visible", "coherent"}, preferred |-> {"cached"}]
DeviceLocal == [required |-> {"device"}, preferred |-> {}]

-----------------------------------------------------------------------------
\* A buffer that write and read go through can be mapped and needs no flush; the
\* preference costs no memory that the requirement alone would have found; and a
\* type outside the buffer's requirements is never taken.
FoundServes(types, allowed, request) ==
  LET found == FindMemoryType(types, allowed, request.required, request.preferred)
      serving == {i \in allowed \cap DOMAIN types : request.required \subseteq types[i]}
  IN  /\ found \subseteq serving
      /\ found = {} => serving = {}
      /\ \A i \in found, j \in serving :
           request.preferred \subseteq types[j] => request.preferred \subseteq types[i]

=============================================================================
