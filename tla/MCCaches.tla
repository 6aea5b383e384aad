-------------------------------- MODULE MCCaches --------------------------------
(* Caches of one line for TLC, where every address conflicts with every       *)
(* other; the proofs are for any number of lines. Three tags, of which the RAM *)
(* decodes two, so that addresses alias; bytes of two values.                  *)
EXTENDS Caches

MCTags == 0 .. 2
MCIndexes == {0}
MCRamTag(tag) == tag % 2

At(tag, index) == [tag |-> tag, index |-> index]

\* At(2, 0) is RAM that also appears at At(0, 0), which is not cacheable.
MCCacheable == {At(1, 0), At(2, 0)}

Zeros == [k \in Lane |-> 0]
Mixed == [k \in Lane |-> IF k = 1 THEN 0 ELSE 1]   \* both signs in bytes and halves
MCStoreWords == {Zeros, Mixed}
MCPowerUpWords == {Zeros}

\* Three addresses of the program counter; the ROM drops the upper tag bit, too.
MCITags == 0 .. 2
MCIIndexes == {0}
MCRom == [a \in [tag: MCITags, index: MCIIndexes] |-> MCRamTag(a.tag)]
================================================================================
