---------------------------- MODULE MCProtoCheck ----------------------------
EXTENDS ProtoCheck

MCPoly == {0, 3, 4, 7, 8, 10, 14}
Full == 0 .. 7
Even == {0, 2, 4, 6}
Pairs == {<<{}, Full>>, <<Full, Even>>, <<Even, {}>>, <<Full, Full>>}
Palette == {{}, Full, Even, {7}, 1 .. 6, 0 .. 5, {0, 1, 5}, {3, 4, 5, 6, 7}}
MCTalks ==
  [lang : Langs, bytes : {<<b>> : b \in Palette} \cup Pairs]
MCFrames == {b \in ByteSet : (3 \in b) = (4 \in b)}
MCHeard == Palette
=============================================================================
