------------------------ MODULE MCLTIVerification ------------------------
(* Instances of LTIVerification for TLC, see the cfg files.               *)
EXTENDS LTIInvariant, MCAutomata

SoundSettings == PlainSettings \cup FixedPointSettings
ZenoSettings == {WithZeno(s) : s \in SoundSettings}
(* The continuous test on first segments only, with and without the other fixed-point tests.     *)
FirstSegmentSettings == {[s EXCEPT !.numberSetsForContinuousCoverage = 1] : s \in SoundSettings}

(* Plain settings for all automata, and the continuous test for those in  *)
(* which it is sound.                                                     *)
SoundAutomata == SoundFamily \cup ContinuousFamily
AllSettings == SoundSettings \cup FirstSegmentSettings
SoundAnalyses ==
  (SoundFamily \X SoundSettings) \cup (ContinuousFamily \X FirstSegmentSettings)

ZenoAnalyses == PingPongFamily \X ZenoSettings
=============================================================================
