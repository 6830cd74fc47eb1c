------------------------------ MODULE MCAlloc ------------------------------
(***************************************************************************)
(* The two allocators of hw5 for model checking: a program is linked with  *)
(* alloc.c or with ealloc.c.                                               *)
(***************************************************************************)
EXTENDS Alloc

CONSTANTS PNUM, ENUM, EMINALLOC, ESizes

ASSUME EallocAssumption == {PNUM, ENUM, EMINALLOC} \subseteq Nat \ {0} /\ ESizes \subseteq Int

VARIABLES lib, emem, estart, esize, epage, ei, eret

evars == <<emem, estart, esize, epage, ei, eret>>
allvars == <<vars, evars, lib>>

E == INSTANCE Ealloc WITH NUM <- ENUM, MINALLOC <- EMINALLOC, Sizes <- ESizes,
       mem <- emem, start <- estart, size <- esize, p <- epage, i <- ei, ret <- eret

MCInit == Init /\ E!Init /\ lib \in {"alloc", "ealloc"}
AllocStep == lib = "alloc" /\ Next /\ UNCHANGED <<evars, lib>>
EallocStep == lib = "ealloc" /\ E!Next /\ UNCHANGED <<vars, lib>>
MCNext == AllocStep \/ EallocStep

\* A call of alloc runs to its end.
MCSpec == MCInit /\ [][MCNext]_allvars /\ WF_allvars(AllocStep /\ search)
-----------------------------------------------------------------------------
\* The blocks of every page of ealloc.c lie inside it and apart, and an address
\* identifies a block, so that dealloc (ealloc.c:100-115) frees the caller's block.
EallocBlocks == E!TypeOK /\ E!BlocksApart /\ E!AddressesDistinct

\* ealloc.c maps a page only when no earlier page has room for the request.
EallocGrows == E!GrowsOnlyWhenFull

\* alloc of ealloc.c returns the first block that fits, page by page.
EallocFirstFit == E!FirstFit
=============================================================================
