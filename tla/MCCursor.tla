------------------------------ MODULE MCCursor ------------------------------
(* A 3x3 surface with a 2x2 arrow: one header row, two console rows, the    *)
(* lower of which has the marker and the track.                             *)
EXTENDS Cursor

MCSprite == {<<0, 0>>, <<0, 1>>, <<1, 1>>}
MCPackets == {<<-1, 0>>, <<1, 0>>, <<0, -1>>, <<-1, 1>>, <<4, 0>>}
MCLines == {<<"a">>, <<"a", "lf">>, <<"bs">>, <<"cr", "a">>}
MCRegions == {Pixels, {p \in Pixels : p[2] = 2}}
MCTrack == {<<1, 2>>, <<2, 2>>}
MCBoxes == {{<<1, 2>>}, {<<2, 2>>}}
MCMarker == {<<0, 2>>}
=============================================================================
