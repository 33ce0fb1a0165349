--------------------------- MODULE MCDeviceServer ---------------------------
(* Small instances of DeviceServer for TLC. *)
EXTENDS DeviceServer, TLC

\* Handlers, connections and v2 devices are interchangeable, and so are the
\* digests when none of them is a mismatch.
Symmetry == Permutations(Handlers) \cup Permutations(V2Devices)
SymmetryAll == Symmetry \cup Permutations(Digests) \cup Permutations(Agents)
=============================================================================
