--------------------------------- MODULE Caches ---------------------------------
(* Both caches of the processor, on one reset. They share nothing else: a      *)
(* cycle in which both are used is a step of each, in either order.            *)
EXTENDS DCache

CONSTANTS ITags, IIndexes, Rom

VARIABLES ivalid_array, itag_array, idata_array
icacheVars == <<ivalid_array, itag_array, idata_array>>
cachesVars == <<vars, icacheVars>>

I == INSTANCE ICache WITH
    valid_array <- ivalid_array, tag_array <- itag_array, data_array <- idata_array

CachesInit == Init /\ I!ICacheInit

FetchStep == (\E pc \in I!InstrAddr : I!Fetch(pc)) /\ UNCHANGED vars
LoadStep == (\E w \in WordAddr : Load(w)) /\ UNCHANGED icacheVars
StoreStep ==
    /\ \E w \in WordAddr, type \in StoreType, offset \in Lane, new \in StoreWords :
          Store(w, type, offset, new)
    /\ UNCHANGED icacheVars
ResetStep == Reset /\ I!EmptyLines

CachesNext == FetchStep \/ LoadStep \/ StoreStep \/ ResetStep
CachesSpec == CachesInit /\ [][CachesNext]_cachesVars
-------------------------------------------------------------------------------
(* Properties.                                                                 *)

\* Every instruction fetched through the instruction cache is the ROM's.
FetchesAreTheRom == I!FetchesAreTheRom
================================================================================
