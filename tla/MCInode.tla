-------------------------------- MODULE MCInode --------------------------------
(* Superblocks that are right but for one field or two, at the limits of   *)
(* each check; inodes of every version, fork and offset of the attributes  *)
(* fork; times before, at and after 1970.  A word has 30 bits: its values  *)
(* are what TLC computes with.                                             *)
EXTENDS Inode

Good ==
  [signature |-> TRUE, version |-> 5, supported |-> TRUE, block |-> 4096,
   sector |-> 512, inode |-> 256, directoryLog |-> 0, group |-> 1024,
   groupLog |-> 10, inodesLog |-> 4, inodes |-> 16]

Superblocks ==
  {[Good EXCEPT !.inode = n] : n \in {128, 256, 300, 512, 2048, 4096}}
  \cup {[Good EXCEPT !.groupLog = g, !.inodesLog = i, !.inodes = n] :
          g \in {0, 1, 10, 28, 29, 30}, i \in {0, 1, 2, 4, 19, 20}, n \in {2, 4, 16, 2 ^ 19}}
  \cup {[Good EXCEPT !.block = b, !.directoryLog = l] :
          b \in {256, 512, 65536, 131072}, l \in {0, 1, 13, 14, 20, 21, 29, 30}}
  \cup {[Good EXCEPT !.group = n] : n \in {4, 5, 2 ^ 29 - 1, 2 ^ 29}}
  \cup {[Good EXCEPT !.version = 3], [Good EXCEPT !.signature = FALSE],
        [Good EXCEPT !.supported = FALSE], [Good EXCEPT !.sector = 100]}

Plain ==
  [signature |-> TRUE, version |-> 3, kind |-> "regular", fork |-> "extents",
   attributesFork |-> "inline", forkOffset |-> 0, size |-> 60, extents |-> 1,
   attributesExtents |-> 1, linksOld |-> 7, links |-> 2, owner |-> 3, group |-> 4,
   device |-> 38, name |-> TRUE,
   times |-> [s \in Stamps |-> CASE s = "creation" -> <<1, 2>> [] s = "access" -> <<2, 0>>
                                 [] s = "change" -> <<2, 9>> [] OTHER -> <<3, 1>>]]

Inodes ==
  {[Plain EXCEPT !.version = v, !.fork = f, !.forkOffset = o, !.size = n, !.extents = x] :
     v \in 0 .. 4, f \in Forks, o \in {0, 1, 8, 9, 10, 11, 19, 20},
     n \in {0, 60, 80, 152, 157}, x \in {1, 5, 6}}
  \cup {[Plain EXCEPT !.fork = f, !.attributesFork = a, !.forkOffset = 5, !.attributesExtents = x] :
          f \in Forks, a \in Forks, x \in {0, 1, 2, 3}}
  \cup {[Plain EXCEPT !.kind = k, !.fork = f, !.version = v, !.name = m] :
          k \in Kinds, f \in Forks, v \in 1 .. 3, m \in BOOLEAN}
  \cup {[Plain EXCEPT !.times = [s \in Stamps |-> <<t, n>>]] : t \in {-2, -1, 0}, n \in {0, 1, 9}}
  \cup {[Plain EXCEPT !.signature = FALSE]}

MCImages == [superblock : Superblocks, inode : {Plain}] \cup [superblock : {Good}, inode : Inodes]
================================================================================
