---------------------------- MODULE MCVoiceAgent ----------------------------
(* A word that is a backchannel by itself ("yeah"), with others ("yeah i      *)
(* know"), and one that is none.                                              *)
EXTENDS VoiceAgent, TLC

SpeakerSymmetry == Permutations(Speakers)
MCPhrases == {<<"yeah">>, <<"yeah", "know", "know">>}
MCAgents == [use_vad : BOOLEAN, use_diar : BOOLEAN, backchannel_phrases : BOOLEAN]
MCPhraseAgents == {[use_vad |-> TRUE, use_diar |-> FALSE, backchannel_phrases |-> TRUE]}
=============================================================================
