---------------------------- MODULE MCMediaPlayer ----------------------------
(* Instances of MediaPlayer for TLC. *)
EXTENDS MediaPlayer

CONSTANTS t1, t2, t3, t4, t5

OneOrThree == {<<t1>>, <<t1, t2, t3>>}
TrackOrAlbum == {<<t4>>, <<t4, t5>>}
==============================================================================
