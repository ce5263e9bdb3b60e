------------------------------ MODULE Releases ------------------------------
(***************************************************************************)
(* Which build of a release listing Fetch takes: the order of builds, the  *)
(* channels' limits, and the scan.                                         *)
(*                                                                         *)
(* A build such as "beta.20" is the sequence of its components; a          *)
(* component is a digit string, of which only the value counts, or another *)
(* word, of which only the first character code counts.  A listing is the  *)
(* sequence of its assets, each with the prerelease mark of its release;   *)
(* match says whether the asset's name fits the platform's pattern.        *)
(***************************************************************************)
EXTENDS Integers, Sequences
LOCAL INSTANCE SequencesExt

Digits(n)  == [digits |-> TRUE,  n |-> n]
Word(code) == [digits |-> FALSE, n |-> code]

Slots == 5

(* The value of component i, 0 where there is none. *)
Value(build, i) ==
  IF i > Len(build) THEN 0
  ELSE IF build[i].digits THEN build[i].n ELSE build[i].n - 1024

(***************************************************************************)
(* int64 arithmetic: four 16-bit limbs, least significant first, modulo    *)
(* 2^64, as Go's wraps.                                                    *)
(***************************************************************************)
Limb == 65536
Zero == <<0, 0, 0, 0>>

MulAdd(x, k, c) ==
  LET t1 == x[1] * k + c
      t2 == x[2] * k + t1 \div Limb
      t3 == x[3] * k + t2 \div Limb
      t4 == x[4] * k + t3 \div Limb
  IN <<t1 % Limb, t2 % Limb, t3 % Limb, t4 % Limb>>

(* Signed comparison: the top bit is the sign. *)
Signed(x) == <<(x[4] + Limb \div 2) % Limb, x[3], x[2], x[1]>>
LexLess(a, b) ==
  \E i \in DOMAIN a : a[i] < b[i] /\ \A j \in 1..(i - 1) : a[j] = b[j]
Less(x, y) == LexLess(Signed(x), Signed(y))

(* parseVersion packs the components into one int64.  The first digit is   *)
(* multiplied by 20001^4 and overflows it for every build, so what comes   *)
(* out is ordered by luck: a build of a word between two that are in use   *)
(* may well lie outside their limits.                                      *)
parseVersion(build) ==
  FoldLeft(LAMBDA acc, i : MulAdd(acc, 20001, Value(build, i) + 10000), Zero,
           [i \in 1..Slots |-> i])

Before(a, b) == Less(parseVersion(a), parseVersion(b))

-----------------------------------------------------------------------------
ConstraintsMin == <<Word(97), Digits(1)>>           (* "alpha.1"           *)
ConstraintsMax == <<Digits(1)>>                     (* "1"                 *)
StableMin      == <<Word(98), Digits(19)>>          (* "beta.19"           *)
StableMax      == <<Digits(1)>>

IsSupported(build) ==
  ~Before(build, ConstraintsMin) /\ Before(build, ConstraintsMax)

(* The first component is "alpha". *)
IsAlpha(build) == build[1] = Word(97)

isVersionSupported(build, prerelease) ==
  prerelease \/ (~Before(build, StableMin) /\ ~Before(StableMax, build))

(* What the scan asks of an asset. *)
Prerelease(asset) == asset.prerelease \/ IsAlpha(asset.build)
Wanted(asset, include) ==
  /\ asset.match
  /\ Prerelease(asset) => include
  /\ isVersionSupported(asset.build, Prerelease(asset))
  /\ IsSupported(asset.build)

(* scanReleases: the first asset that will do, none if there is none. *)
scanReleases(listing, include, none) ==
  LET good == SelectSeq(listing, LAMBDA a : Wanted(a, include))
  IN IF good = <<>> THEN none ELSE good[1]
=============================================================================
