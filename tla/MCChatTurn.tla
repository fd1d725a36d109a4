----------------------------- MODULE MCChatTurn -----------------------------
(* Two documents, a third that is asked for and not indexed, and a passage    *)
(* of another project; two passages that begin alike, and a wide table.       *)
EXTENDS ChatTurn
CONSTANTS a1, a2, a3, b1, da, db, dx, s1, s2, s3, s4, w1, w2

MCDocOf == a1 :> da @@ a2 :> da @@ a3 :> da @@ b1 :> db
MCCorpus == <<b1, a1, a3, a2>>
MCSig == a1 :> 1 @@ a2 :> 2 @@ a3 :> 1 @@ b1 :> 3
MCHas == a1 :> {w1} @@ a2 :> {} @@ a3 :> {w1, w2} @@ b1 :> {w1, w2}
MCSents == a1 :> <<s1, s2>> @@ a2 :> <<>> @@ a3 :> <<s1, s3>> @@ b1 :> <<s4>>
MCWords == s1 :> 60 @@ s2 :> 100 @@ s3 :> 150 @@ s4 :> 40
MCGist == s1 :> 1 @@ s2 :> 2 @@ s3 :> 3 @@ s4 :> 4
MCHit == s1 :> 5000 @@ s2 :> 0 @@ s3 :> 2500 @@ s4 :> 10000
MCColumns == a1 :> <<>> @@ a2 :> <<10000, 0, 5000, 2500, 0>> @@ a3 :> <<>> @@ b1 :> <<>>
MCScopes == {{}, {dx}, {da, dx}}
=============================================================================
