------------------------------ MODULE MCFiles ------------------------------
(* The layers of YAFFS that Yaffs takes as given, side by side: the write  *)
(* cache, the tree of a file's chunks and the two error correcting codes.  *)
(* A behaviour is one of one of them; the others stand still.              *)
EXTENDS YaffsCache, YaffsTnodes, YaffsEcc, TLC

Symmetry == Permutations(OpenFiles) \union Permutations(Descriptors)

MCPages == SUBSET {0, 1, 6}
MCTagSets == SUBSET {1, 2, 8, 16}

VARIABLE part
filesVars == <<part, cacheVars, tnodeVars, eccVars>>

CacheStep == part = "cache" /\ CacheNext /\ UNCHANGED <<part, tnodeVars, eccVars>>
TnodesStep == part = "tnodes" /\ TnodesNext /\ UNCHANGED <<part, cacheVars, eccVars>>
EccStep == part = "ecc" /\ EccNext /\ UNCHANGED <<part, cacheVars, tnodeVars>>

FilesInit ==
    /\ part \in {"cache", "tnodes", "ecc"}
    /\ CacheInit /\ TnodesInit /\ EccInit
    /\ part # "tnodes" => tree.room
    /\ part # "ecc" => page = {} /\ tags = {}
FilesNext == CacheStep \/ TnodesStep \/ EccStep
FilesSpec == FilesInit /\ [][FilesNext]_filesVars
=============================================================================
