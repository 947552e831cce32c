---------------------------- MODULE MC_DataPath -----------------------------
(* The format's limits are small enough for every one of them to be reached: *)
(* leaves fill up, extents are cut at both ends, runs need several entries,  *)
(* tables several ranges, and reads begin and end inside blocks and behind   *)
(* the end of the device.                                                    *)
EXTENDS DataPath

MCRuns == {<<0, 6>>, <<0, 2>>, <<1, 2>>, <<5, 1>>}
MCRequests == {<<3, 11>>, <<0, 12>>}
=============================================================================
