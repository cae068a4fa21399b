----------------------- MODULE MCNormalizationCache -----------------------
(* Two tenants with the same source, another small one, one that fills the *)
(* cache, and one too large for it.                                        *)
EXTENDS NormalizationCache, TLC

CONSTANTS SmallOfT1, SmallOfT2, OtherOfT2, LargeOfT1, OversizedOfT1

MCIdentities == {SmallOfT1, SmallOfT2, OtherOfT2, LargeOfT1, OversizedOfT1}

MCSource == SmallOfT1 :> "small" @@ SmallOfT2 :> "small" @@ OtherOfT2 :> "other"
            @@ LargeOfT1 :> "large" @@ OversizedOfT1 :> "oversized"

MCSize == SmallOfT1 :> 1 @@ SmallOfT2 :> 1 @@ OtherOfT2 :> 3
          @@ LargeOfT1 :> 3 @@ OversizedOfT1 :> 5

BufferSymmetry == Permutations(Buffers)
===========================================================================
