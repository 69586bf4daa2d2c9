---------------------------- MODULE MCFsVirtio9p ----------------------------
(* Instances of FsVirtio9p for TLC, and what the comments in the sources    *)
(* say of the driver that the code does not keep up.                        *)
EXTENDS FsVirtio9p

\* "The 9P fid for this open file" (fs_virtio9p.h): while the fid of an open
\* file is bound at the server, it stands for the file that was opened.
OcbFidIsOpenFile ==
    \A o \in OpenOcbs : Bound(ocb[o].fid) => srvFids[ocb[o].fid] = ocb[o].obj

=============================================================================
