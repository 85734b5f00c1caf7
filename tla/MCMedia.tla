------------------------------ MODULE MCMedia ------------------------------
(* Small instances of Media for TLC: callers ask for a video of YouTube,   *)
(* for one that has no id of YouTube, for a broken url that has none       *)
(* either, and for a picture.                                              *)
EXTENDS Media, TLC

CONSTANTS a, b, c, d, film, clip, lost, photo, anId, noId

FourCallers == {a, b, c, d}
ThreeVideos == {film, clip, lost}
OnePicture == {photo}
TwoKeys == {anId, noId}
Extracted == film :> anId @@ clip :> noId @@ lost :> noId
Asked == a :> film @@ b :> clip @@ c :> lost @@ d :> photo
Unread == {lost}
=============================================================================
