--------------------------------- MODULE Inode ---------------------------------
(***************************************************************************)
(* From the superblock and an inode on disk to what a file entry tells of  *)
(* the file: the checks of libfsxfs_superblock_read_data, the forks and    *)
(* fields libfsxfs_inode_read_data cuts out of the inode, the arrays of    *)
(* extents libfsxfs_inode_read_file_io_handle makes of the forks or gives  *)
(* back when one of them is damaged, and the getters of the file entry.    *)
(*                                                                         *)
(* Sizes and offsets are bytes.  Which extents a fork has is the business  *)
(* of module Extents: here reading them succeeds or fails.                 *)
(***************************************************************************)
EXTENDS Integers

CONSTANTS
  WordBits,     \* bits of a uint32_t
  HeaderOld,    \* sizeof( fsxfs_inode_v1_t ), the size of a version 2 too
  HeaderNew,    \* sizeof( fsxfs_inode_v3_t )
  RecordBytes,  \* bytes of a packed extent
  InodeSizes,   \* the sizes libfsxfs_inode_initialize takes
  SectorSizes,  \* the sizes libfsxfs_superblock_read_data takes
  Second,       \* nanoseconds of a second
  MinorNumbers, \* minor numbers of a device identifier
  Images        \* superblocks, each with an inode

Kinds == {"regular", "link", "directory", "special"}
Forks == {"device", "inline", "extents", "btree", "other"}
Stamps == {"creation", "modification", "access", "change"}

Superblock == [signature : BOOLEAN, version : Nat, supported : BOOLEAN,
               block : Nat, sector : Nat, inode : Nat, directoryLog : Nat,
               group : Nat, groupLog : Nat, inodesLog : Nat, inodes : Nat]

Stored == [signature : BOOLEAN, version : Nat, kind : Kinds, fork : Forks,
           attributesFork : Forks, forkOffset : 0 .. 255, size : Nat,
           extents : Nat, attributesExtents : Nat, linksOld : Nat, links : Nat,
           owner : Nat, group : Nat, device : Nat, name : BOOLEAN,
           times : [Stamps -> Int \X (0 .. Second - 1)]]

ASSUME InodeAssumption ==
  /\ WordBits \in Nat /\ WordBits >= 3
  /\ \A n \in 0 .. WordBits : 2 ^ n \in Nat \ {0}
  /\ 65536 < 2 ^ WordBits
  /\ HeaderOld \in Nat /\ HeaderNew \in Nat /\ HeaderOld < HeaderNew
  /\ RecordBytes \in Nat \ {0}
  /\ InodeSizes \subseteq Nat /\ \A n \in InodeSizes : n >= HeaderNew + 8
  /\ SectorSizes \subseteq Nat
  /\ Second \in Nat \ {0}
  /\ MinorNumbers \in Nat \ {0}
  /\ Images \subseteq [superblock : Superblock, inode : Stored]

VARIABLES
  image,       \* what the disk holds
  stage,       \* "closed", "open", "allocated", "decoded", "forked", "failed",
               \* "ready" with a file entry, "released"
  geometry,    \* the io_handle: what was taken from the superblock
  dataFork,    \* data_fork_offset and data_fork_size
  attributes,  \* attributes_fork_offset and attributes_fork_size
  stamps,      \* the four times of the inode in nanoseconds
  allocated,   \* what the inode owns
  answer       \* field, result and value of the last getter

inodeVars == <<image, stage, geometry, dataFork, attributes, stamps, allocated, answer>>
disk == image.inode

NoGeometry == [block |-> 0, inode |-> 0, directory |-> 0, blockBits |-> 0, inodeBits |-> 0]
NoFork == [offset |-> 0, size |-> 0]
NoAnswer == <<"none", 0, 0>>

------------------------------------------------------------------------------
(* The superblock                                                          *)

VersionAccepted(sb) == sb.signature /\ sb.version \in {4, 5} /\ sb.supported

SizesAccepted(sb) ==
  /\ 512 <= sb.block /\ sb.block <= 65536
  /\ sb.sector \in SectorSizes
  /\ sb.inode \in 256 .. 2048

(* The product that gives the size of a directory block stays below the    *)
(* width of its field; 0 stands for a size that is refused.                *)
DirectoryBlock(sb) ==
  IF sb.directoryLog = 0 THEN sb.block
  ELSE IF \/ sb.directoryLog >= WordBits
          \/ 2 ^ sb.directoryLog > (2 ^ WordBits - 1) \div sb.block
    THEN 0
    ELSE 2 ^ sb.directoryLog * sb.block

GroupAccepted(sb) ==
  /\ sb.group \in 5 .. 2 ^ (WordBits - 1) - 1
  /\ sb.groupLog \in 1 .. WordBits - 1

InodeBitsUnchecked(sb) == sb.inodesLog # 0 /\ sb.inodes = 2 ^ sb.inodesLog

InodeBitsAccepted(sb) ==
  /\ sb.inodesLog \in 1 .. WordBits - sb.groupLog
  /\ sb.groupLog + sb.inodesLog < WordBits
  /\ sb.inodes = 2 ^ sb.inodesLog

Accepted(sb) ==
  /\ VersionAccepted(sb)
  /\ SizesAccepted(sb)
  /\ DirectoryBlock(sb) # 0
  /\ GroupAccepted(sb)
  /\ InodeBitsAccepted(sb)

(* What libfsxfs_internal_volume_open_read passes on to the io_handle.     *)
GeometryOf(sb) ==
  [block |-> sb.block, inode |-> sb.inode, directory |-> DirectoryBlock(sb),
   blockBits |-> sb.groupLog, inodeBits |-> sb.groupLog + sb.inodesLog]

InodeInit ==
  /\ image \in Images
  /\ stage = "closed"
  /\ geometry = NoGeometry
  /\ dataFork = NoFork
  /\ attributes = NoFork
  /\ stamps = [s \in Stamps |-> 0]
  /\ allocated = {}
  /\ answer = NoAnswer

ReadSuperblock ==
  /\ stage = "closed"
  /\ IF Accepted(image.superblock)
       THEN stage' = "open" /\ geometry' = GeometryOf(image.superblock)
       ELSE stage' = "released" /\ geometry' = geometry
  /\ UNCHANGED <<image, dataFork, attributes, stamps, allocated, answer>>

------------------------------------------------------------------------------
(* The inode                                                               *)

(* libfsxfs_inode_initialize takes fewer sizes than the superblock may say.*)
Initialize ==
  /\ stage = "open"
  /\ IF geometry.inode \in InodeSizes
       THEN stage' = "allocated" /\ allocated' = {"data"}
       ELSE stage' = "released" /\ allocated' = {}
  /\ UNCHANGED <<image, geometry, dataFork, attributes, stamps, answer>>

Header == IF disk.version = 3 THEN HeaderNew ELSE HeaderOld

(* Bytes behind the header, and where the attributes fork begins in them;  *)
(* the offset on disk counts 8 bytes.                                      *)
Room == geometry.inode - Header
Split == disk.forkOffset * 8

SplitAccepted == Split = 0 \/ Split < Room

SplitDataFork ==
  [offset |-> Header, size |-> IF Split > 0 THEN Split ELSE Room]

AttributesForkBehindData ==
  IF Split = 0 THEN NoFork
  ELSE [offset |-> Split, size |-> geometry.inode - Split]

(* The attributes fork takes what the data fork leaves.                    *)
SplitAttributesFork ==
  IF Split = 0 THEN NoFork
  ELSE [offset |-> Header + Split, size |-> geometry.inode - (Header + Split)]

(* The fraction is taken away from a time that is not after 1970.          *)
Nanoseconds(stored) ==
  stored[1] * Second + (IF stored[1] > 0 THEN stored[2] ELSE -stored[2])

(* Only version 3 has a creation time.                                     *)
DecodedStamps ==
  [s \in Stamps |->
    IF s = "creation" /\ disk.version # 3 THEN 0 ELSE Nanoseconds(disk.times[s])]

Decodable ==
  /\ geometry.inode >= Header
  /\ disk.signature
  /\ disk.version \in {1, 2, 3}
  /\ SplitAccepted
  /\ disk.fork = "inline" => disk.size <= SplitDataFork.size

(* libfsxfs_inode_read_data.                                               *)
ReadData ==
  /\ stage = "allocated"
  /\ Decodable
  /\ dataFork' = SplitDataFork
  /\ attributes' = SplitAttributesFork
  /\ stamps' = DecodedStamps
  /\ stage' = "decoded"
  /\ UNCHANGED <<image, geometry, allocated, answer>>

(* An extent list has to lie in its fork.                                  *)
ListFits(count, fork) == count <= fork.size \div RecordBytes

(* The array of a fork that holds its extents, and the tree that reads     *)
(* them, which lives no longer than the call.                              *)
ReadDataFork(whole) ==
  /\ stage = "decoded"
  /\ IF disk.fork \in {"extents", "btree"}
       THEN /\ whole => (disk.fork = "extents" => ListFits(disk.extents, dataFork))
            /\ allocated' = allocated \cup {"extents"} \cup
                 (IF disk.fork = "btree" /\ ~whole THEN {"tree"} ELSE {})
       ELSE whole /\ allocated' = allocated
  /\ stage' = IF whole THEN "forked" ELSE "on_error"
  /\ UNCHANGED <<image, geometry, dataFork, attributes, stamps, answer>>

ReadAttributesFork(whole) ==
  /\ stage = "forked"
  /\ IF attributes.size > 0 /\
        (disk.attributesFork = "btree" \/
         (disk.attributesFork = "extents" /\ disk.attributesExtents > 0))
       THEN /\ whole => (disk.attributesFork = "extents" =>
                           ListFits(disk.attributesExtents, attributes))
            /\ allocated' = allocated \cup {"attributes"} \cup
                 (IF disk.attributesFork = "btree" /\ ~whole THEN {"tree"} ELSE {})
       ELSE whole /\ allocated' = allocated
  /\ stage' = IF whole THEN "read" ELSE "on_error"
  /\ UNCHANGED <<image, geometry, dataFork, attributes, stamps, answer>>

OnErrorKeepingExtents ==
  /\ stage = "on_error"
  /\ allocated' = allocated \ {"attributes", "tree"}
  /\ stage' = "failed"
  /\ UNCHANGED <<image, geometry, dataFork, attributes, stamps, answer>>

(* The end of libfsxfs_inode_read_file_io_handle when a fork is damaged.   *)
OnError ==
  /\ stage = "on_error"
  /\ allocated' = allocated \ {"extents", "attributes", "tree"}
  /\ stage' = "failed"
  /\ UNCHANGED <<image, geometry, dataFork, attributes, stamps, answer>>

(* The read of the inode's bytes that fails, or bytes that are no inode.   *)
ReadDataFails ==
  /\ stage = "allocated"
  /\ stage' = "failed"
  /\ UNCHANGED <<image, geometry, dataFork, attributes, stamps, allocated, answer>>

(* libfsxfs_file_entry_initialize.                                         *)
InitializeEntry ==
  /\ stage = "read"
  /\ stage' = "ready"
  /\ UNCHANGED <<image, geometry, dataFork, attributes, stamps, allocated, answer>>

(* libfsxfs_inode_free, called by the file entry that owns the inode and   *)
(* by whoever could not read it.                                           *)
Free ==
  /\ stage \in {"ready", "failed"}
  /\ allocated' = allocated \ {"extents", "attributes", "data"}
  /\ stage' = "released"
  /\ UNCHANGED <<image, geometry, dataFork, attributes, stamps, answer>>

Released == stage = "released" /\ UNCHANGED inodeVars

------------------------------------------------------------------------------
(* The getters of the file entry: a result of 1 with a value, 0 when the   *)
(* file has no such thing, -1 for an error.                                *)

Tell(field, result, value) ==
  /\ stage = "ready"
  /\ answer' = <<field, result, value>>
  /\ UNCHANGED <<image, stage, geometry, dataFork, attributes, stamps, allocated>>

TellIf(field, known, value) ==
  Tell(field, IF known THEN 1 ELSE 0, IF known THEN value ELSE 0)

(* The number of links has 16 bits and another place in version 1.         *)
NumberOfLinks == IF disk.version = 1 THEN disk.linksOld ELSE disk.links

IsDevice == disk.fork = "device"

(* The data size and the data stream are for files and symbolic links.     *)
DataSize == IF disk.kind \in {"regular", "link"} THEN disk.size ELSE 0

GetCreationTime == TellIf("creation", disk.version = 3, stamps["creation"])
GetModificationTime == Tell("modification", 1, stamps["modification"])
GetAccessTime == Tell("access", 1, stamps["access"])
GetInodeChangeTime == Tell("change", 1, stamps["change"])
GetFileMode == Tell("mode", 1, disk.kind)
GetNumberOfLinks == Tell("links", 1, NumberOfLinks)
GetOwnerIdentifier == Tell("owner", 1, disk.owner)
GetGroupIdentifier == Tell("group", 1, disk.group)
GetDeviceIdentifier == TellIf("device", IsDevice, disk.device)
GetDeviceNumber ==
  TellIf("numbers", IsDevice, <<disk.device \div MinorNumbers, disk.device % MinorNumbers>>)
GetNameSize == TellIf("nameSize", disk.name, 1)
GetName == TellIf("name", disk.name, 1)
GetSize == Tell("size", 1, DataSize)

(* libfdata_stream_get_offset of an entry no read has moved.               *)
GetOffset == Tell("offset", IF disk.kind = "regular" THEN 1 ELSE -1, 0)

(* A fork without extents has no array: asking for its entries fails.      *)
GetNumberOfExtents ==
  Tell("extents", IF "extents" \in allocated THEN 1 ELSE -1, 0)

Ask ==
  \/ GetCreationTime \/ GetModificationTime \/ GetAccessTime \/ GetInodeChangeTime
  \/ GetFileMode \/ GetNumberOfLinks \/ GetOwnerIdentifier \/ GetGroupIdentifier
  \/ GetDeviceIdentifier \/ GetDeviceNumber
  \/ GetNameSize \/ GetName
  \/ GetSize \/ GetOffset \/ GetNumberOfExtents

InodeNext ==
  \/ ReadSuperblock
  \/ Initialize
  \/ ReadData
  \/ \E whole \in BOOLEAN : ReadDataFork(whole) \/ ReadAttributesFork(whole)
  \/ OnError
  \/ ReadDataFails
  \/ InitializeEntry
  \/ Ask
  \/ Free
  \/ Released

InodeSpec == InodeInit /\ [][InodeNext]_inodeVars
------------------------------------------------------------------------------

Whole == {"decoded", "forked", "read", "ready"}

(* The type invariant.                                                     *)
InodeTypeOK ==
  /\ image \in Images
  /\ stage \in {"closed", "open", "allocated", "on_error", "failed", "released"} \cup Whole
  /\ geometry \in [block : Nat, inode : Nat, directory : Nat, blockBits : Nat, inodeBits : Nat]
  /\ dataFork \in [offset : Nat, size : Nat]
  /\ attributes \in [offset : Nat, size : Nat]
  /\ stamps \in [Stamps -> Int]
  /\ allocated \subseteq {"data", "extents", "attributes", "tree"}

(* The accepted geometry of a volume can be computed with: neither the     *)
(* numbers of inodes nor those of blocks are shifted by the width of a     *)
(* word, the int shift of libfsxfs_data_stream_initialize_from_extents     *)
(* included, and a directory block is a number of blocks that fits a word. *)
ShiftsAreDefined ==
  geometry # NoGeometry =>
    /\ geometry.blockBits < WordBits - 1
    /\ geometry.blockBits < geometry.inodeBits /\ geometry.inodeBits < WordBits
    /\ geometry.directory < 2 ^ WordBits
    /\ geometry.directory % geometry.block = 0

(* The header, the data fork and the attributes fork of an inode lie in it *)
(* one behind the other, whatever offset the disk gives: no byte is in two *)
(* of them and, where there is an attributes fork, none is in neither.     *)
(* What a caller is given from the data fork lies in it: all the bytes of  *)
(* the size an inline file tells, all records of an extent list, the       *)
(* identifier of a device.                                                 *)
ForksPartition ==
  stage \in Whole =>
    LET end == dataFork.offset + dataFork.size
    IN  /\ dataFork.offset = Header
        /\ end <= geometry.inode
        /\ attributes.size > 0 =>
             attributes.offset = end /\ end + attributes.size = geometry.inode
        /\ attributes.size = 0 => end = geometry.inode
        /\ disk.fork = "inline" => disk.size <= dataFork.size
        /\ disk.fork = "device" => 4 <= dataFork.size
        /\ stage = "ready" /\ disk.fork = "extents" => disk.extents * RecordBytes <= dataFork.size

(* An inode that could not be read keeps no extents of the forks that      *)
(* could, and one that is given back keeps nothing.                        *)
NothingIsLeft ==
  /\ stage = "failed" => allocated \subseteq {"data"}
  /\ stage = "released" => allocated = {}

(* The times the format describes: seconds since 1970 and a fraction.      *)
TimeStored(s) == disk.times[s][1] * Second + disk.times[s][2]

(* "number of seconds since January 1, 1970 00:00:00 UTC (POSIX epoch) and *)
(* fraction of second in number of nanoseconds": a file entry tells the    *)
(* time of its inode, whatever the sign of the seconds.  It does not hold: *)
(* a fraction is taken from the seconds unless they are above 0.           *)
TellsEveryTime ==
  answer[1] \in Stamps /\ answer[2] = 1 => answer[3] = TimeStored(answer[1])
================================================================================
