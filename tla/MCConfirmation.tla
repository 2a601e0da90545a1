--------------------------- MODULE MCConfirmation ---------------------------
\* Two links of one site, a file and a playlist whose text does not tell it is one, and
\* a video of another. The cookies of playlists are bypassed by the stored rules, those
\* of the video by the default ones.
EXTENDS Confirmation

MCSite == [u \in Url |-> IF u = "video" THEN "tube" ELSE "files"]
MCKind == [u \in Url |-> IF u = "video" THEN "Yt-DLP" ELSE "Auto"]
MCServed == [u \in Url |-> CASE u = "video" -> {"Yt-DLP"}
                             [] u = "list" -> {"HLS"}
                             [] OTHER -> {"Auto"}]
MCPayloads == {[url |-> "video", protocol |-> "none", cookie |-> FALSE]}
MCBypass == {<<"default", "tube", "ytdlp">>, <<"loaded", "files", "hls">>}
=============================================================================
