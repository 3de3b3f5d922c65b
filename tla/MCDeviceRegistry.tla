-------------------------- MODULE MCDeviceRegistry ---------------------------
EXTENDS DeviceRegistry, TLC

CONSTANTS twinA, twinB, other, uid, path1, path2

\* Two keyboards of one model, and one without a UID.
MCUidOf    == (twinA :> uid) @@ (twinB :> uid) @@ (other :> None)
MCPathBase == <<path1, path2>>

\* As the log's snippet suggests for the second twin; and the first path.
MCDeclared == {<<uid, 1>>, <<path1, 0>>}
==============================================================================
