------------------------- MODULE MCAllocatorPrograms -------------------------
(* Instances of AllocatorPrograms, and of Coalesce with it, for TLC: the
   configurations give the constants their values; the region has two small
   pages, and the large drivers' big blocks are so big that the second one
   fits no more. *)
EXTENDS AllocatorPrograms, Coalesce

AllPrograms == {"any", "main", "small_symmetric", "small_asymmetric",
                "large_symmetric", "large_asymmetric"}

SixtyFourAndBig == <<64, 5440>>
=============================================================================
