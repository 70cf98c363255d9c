------------------------------ MODULE MCDrive ------------------------------
(* Drive for TLC: geometries of every profile whose regions touch, overlap  *)
(* or leave the drive, with tables of two records.                          *)
EXTENDS Drive

MCMaxOf == (1 :> 1) @@ (2 :> 1) @@ (4 :> 3) @@ (8 :> 3)

MCGeometry(profile, slotSize, tableOffset, registryOffset, sparseOffset, sparseSlotSize) ==
  [driveLength |-> 2048, seed |-> 1, capacity |-> 3, loadLimit |-> 2, profile |-> profile,
   slotSize |-> slotSize, tableOffset |-> tableOffset, registryOffset |-> registryOffset,
   registryCapacity |-> 2, sparseOffset |-> sparseOffset, sparseCapacity |-> 3,
   sparseLoadLimit |-> 2, sparseSlotSize |-> sparseSlotSize]

MCConfigs ==
  {MCGeometry(SingleAsset, g[1], 0, g[2], 0, 0) : g \in {<<0, 0>>, <<8, 64>>, <<0, 1024>>}}
  \cup {MCGeometry(Wide, 32, t, r, 0, 0) : t \in {0, 1056}, r \in {1008, 1016, 1040, 1048}}
  \cup {MCGeometry(Sparse, 0, 0, g[1], g[2], g[3]) :
          g \in {<<56, 1072, 0>>, <<64, 1056, 0>>, <<64, 1072, 8>>, <<1120, 1072, 0>>, <<1120, 1056, 8>>}}
  \cup {[MCGeometry(Wide, 32, 0, 64, 0, 0) EXCEPT !.capacity = 8, !.loadLimit = 0],
        [MCGeometry(Wide, 32, 0, 64, 0, 0) EXCEPT !.driveLength = 1024],
        [MCGeometry(Wide, 32, 0, 64, 0, 0) EXCEPT !.capacity = 2, !.loadLimit = 1],
        [MCGeometry(SingleAsset, 16, 0, 0, 0, 0) EXCEPT !.loadLimit = 3]}

=============================================================================
