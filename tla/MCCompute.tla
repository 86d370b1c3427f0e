------------------------------ MODULE MCCompute ------------------------------
(***************************************************************************)
(* One computation at a time, from its call to its end: a matrix product   *)
(* or an attention kernel with its grid (sizes that do not divide the      *)
(* tile, all tile configurations, an autotuned one), a step of speculative *)
(* decoding, a run of the autotuner, an FP8 conversion.                    *)
(***************************************************************************)
EXTENDS MatmulKernels, FlashAttn, SpecDecode, Autotune

CONSTANTS
    Refused,  \* the FP32 tiles whose kernel the device does not start
    Fine,     \* the resolution of floats
    MaxExp    \* bounds their exponents

ASSUME ComputeAssumption == Fine \in Nat \ {0} /\ MaxExp \in Nat /\ Refused \subseteq FP32Configs

F == INSTANCE Fp8

VARIABLES
    call,    \* the host call: "none", "launched" or "threw"
    tuned,   \* what an autotuner chose (cfg), and among what: the tiles that
             \* can be launched, with their times (usable)
    fp       \* the float or the code under conversion

kernelVars == <<gemmVars, flashVars, call, tuned>>
vars == <<kernelVars, specVars, tuneVars, fp>>

Sizes == {<<3, 3, 3>>, <<2, 4, 2>>, <<1, 3, 4>>}
TileCfgs == FP32Configs \cup {<<4, 4, 1>>}
LargeTiles == {<<2, 2, 1>>, <<2, 2, 2>>}   \* 1024 threads per block

Problems ==
    {[B |-> 1, Hq |-> 1, Hkv |-> 1, Sq |-> 4, Skv |-> s, causal |-> c]
       : s \in {3, 4}, c \in BOOLEAN}
    \cup {[B |-> 2, Hq |-> 2, Hkv |-> 1, Sq |-> 2, Skv |-> 3, causal |-> FALSE],
          [B |-> 1, Hq |-> 1, Hkv |-> 1, Sq |-> 3, Skv |-> 3, causal |-> TRUE]}
AttnTiles == {<<4, 4, 2>>, <<2, 2, 2>>, <<2, 4, 1>>, <<1, 4, 2>>, <<2, 1, 2>>}

Untuned == [cfg |-> <<>>, usable |-> {}]

NoInput == [format |-> "none", code |-> 0, value |-> F!Zero]

Init ==
    /\ GemmInit /\ FlashInit /\ call = "none" /\ tuned = Untuned
    /\ SpecInit /\ TuneInit /\ fp = NoInput

RunGemm(j) ==
    /\ IF j = Throw THEN call' = "threw" /\ UNCHANGED gemmVars
                    ELSE call' = "launched" /\ StartGrid(j)
    /\ UNCHANGED flashVars

RunFlash(j) ==
    /\ IF j = NoLaunch THEN call' = "threw" /\ UNCHANGED flashVars
                       ELSE call' = "launched" /\ StartFlash(j)
    /\ UNCHANGED gemmVars

(* A launch that the device refuses does nothing and returns as usual. *)
RunFP32(cfg, M, N, K) ==
    IF cfg \in Refused THEN call' = "launched" /\ UNCHANGED <<gemmVars, flashVars>>
                       ELSE RunGemm(launch_matmul(cfg, M, N, K))

CallMatmul ==
    /\ \E s \in Sizes, cfg \in TileCfgs : RunFP32(cfg, s[1], s[2], s[3])
    /\ UNCHANGED tuned

CallBf16 ==
    /\ \E s \in Sizes : \/ RunGemm(launch_matmul_bf16_cuda(s[1], s[2], s[3]))
                        \/ RunGemm(launch_matmul_bf16_hip(s[1], s[2], s[3]))
    /\ UNCHANGED tuned

CallSycl ==
    /\ \E s \in Sizes : \/ RunGemm(gemm_tiled_sycl(s[1], s[2], s[3]))
                        \/ RunGemm(gemm_xmx_bf16(s[1], s[2], s[3]))
    /\ UNCHANGED tuned

CallFlash ==
    /\ \E p \in Problems, cfg \in AttnTiles : RunFlash(dispatch_flash_attn(p, cfg))
    /\ UNCHANGED tuned

(* Tune, then launch what the tuner returned. *)
TuneMatmul ==
    \E ms \in [FP32Configs -> 1 .. 3] :
      LET cfg == autotune_matmul([c \in FP32Configs |-> c \notin Refused], ms)
      IN  /\ tuned' = [cfg |-> cfg, usable |-> {<<c, ms[c]>> : c \in FP32Configs \ Refused}]
          /\ RunFP32(cfg, 2, 1, 1)

TuneFlash ==
    \E d \in 1 .. 3, works \in [Range(TileOptions) -> BOOLEAN], ms \in [Range(TileOptions) -> {1, 2}] :
      LET p == [B |-> 1, Hq |-> 1, Hkv |-> 1, Sq |-> 2, Skv |-> 1, causal |-> TRUE]
          fits == {t \in Range(TileOptions) : SHMEM(t[1], t[2], d) <= SmemCap}
          cfg == autotune_flash_attn(d, works, ms)
      IN  /\ tuned' = [cfg |-> cfg,
                       usable |-> {<<<<t[1], t[2], d>>, ms[t]>> : t \in
                                   {t \in fits : works[t] /\ dispatch_flash_attn(p, <<t[1], t[2], d>>) # NoLaunch}}]
          /\ RunFlash(dispatch_flash_attn(p, cfg))

Decoded(format, c) == IF format = "e4m3" THEN F!e4m3_to_f32(c) ELSE F!e5m2_to_f32(c)
Encoded(format, v) == IF format = "e4m3" THEN F!f32_to_e4m3(v) ELSE F!f32_to_e5m2(v)

Convert ==
    /\ fp = NoInput
    /\ \E format \in {"e4m3", "e5m2"} :
         \/ \E c \in 0 .. 127 :
              fp' = [format |-> format, code |-> c, value |-> Decoded(format, c)]
         \/ \E v \in (-MaxExp .. MaxExp) \X F!Significands :
              fp' = [format |-> format, code |-> Encoded(format, v), value |-> v]

HostCall ==
    /\ call = "none"
    /\ CallMatmul \/ CallBf16 \/ CallSycl \/ CallFlash \/ TuneMatmul \/ TuneFlash

GridStep ==
    /\ call = "launched"
    /\ \/ GemmNext /\ UNCHANGED <<flashVars, call, tuned>>
       \/ FlashNext /\ UNCHANGED <<gemmVars, call, tuned>>

(* The computations share no state. *)
Start  == calls = 0 /\ stage = "idle" /\ fp = NoInput
              /\ HostCall /\ UNCHANGED <<specVars, tuneVars, fp>>
Run    == GridStep /\ UNCHANGED <<specVars, tuneVars, fp>>
Decode == call = "none" /\ stage = "idle" /\ fp = NoInput
              /\ SpecNext /\ UNCHANGED <<kernelVars, tuneVars, fp>>
Tune   == call = "none" /\ calls = 0 /\ fp = NoInput
              /\ TuneNext /\ UNCHANGED <<kernelVars, specVars, fp>>
Fp     == call = "none" /\ calls = 0 /\ stage = "idle"
              /\ Convert /\ UNCHANGED <<kernelVars, specVars, tuneVars>>

Next == Start \/ Run \/ Decode \/ Tune \/ Fp

(* A grid that can go on does (some thread moves, or a barrier that        *)
(* everyone has reached opens), and so does the autotuner's loop.          *)
Spec == Init /\ [][Next]_vars
             /\ WF_vars(Run)
             /\ WF_vars(stage = "rounds" /\ Tune)

-----------------------------------------------------------------------------
(* Properties *)

(* Every launched grid runs to its end: no thread waits at a barrier that  *)
(* others have left for good.  (Early returns and breaks before and        *)
(* between the barriers of the kernels.)                                   *)
GridFinishes ==
    call = "launched" ~> (job = Throw \/ GridDone) /\ (fjob = NoLaunch \/ FlashDone)

(* An autotuner that had a choice returns a configuration that can be      *)
(* launched, and none that can is faster.  autotune_flash_attn has to skip *)
(* what does not fit, is not compiled in, or fails in the warm-up.         *)
(* autotune_matmul skips what throws, which no tile of its list does, and  *)
(* does not see a kernel that the device fails to start.                   *)
TunedIsBest ==
    tuned.usable # {} =>
        /\ call = "launched"
        /\ \E u \in tuned.usable : u[1] = tuned.cfg /\ \A v \in tuned.usable : u[2] <= v[2]

(* Encoding takes a float to the nearest code, ties away from zero, and    *)
(* floats above the range to the largest one; and it takes the float of a  *)
(* code back to it, also if that is a NaN or infinity.  Not so between the *)
(* largest subnormal and the smallest normal number, where both encoders   *)
(* clamp the mantissa and round down.                                      *)
Fp8Nearest ==
    LET f == IF fp.format = "e4m3" THEN F!E4M3 ELSE F!E5M2
        top == F!Exp2(f.bits) - 1   \* the largest subnormal
        v == fp.value
        encoded == Encoded(fp.format, v)
        clamped == ~F!Less(v, F!Middle(f, top)) /\ F!Less(v, F!Number(top + 1, f.bits, f.bias))
    IN  fp.format # "none" =>
          /\ encoded = fp.code \/ (v = F!NaN /\ encoded = 127)
          /\ F!Finite(v) => fp.code = IF clamped THEN top ELSE F!Nearest(f, v)

=============================================================================
