----------------------------- MODULE FatVolume ------------------------------
(***************************************************************************)
(* FatFs (ff.c) on the card, as this program uses it: a play mounts the    *)
(* volume, opens its file, reads it block by block and unmounts the volume *)
(* (board_dac_sound.c), ls mounts it and lists the root directory          *)
(* (board_fatfs_interface.c), and the USB host, which owns the same card,  *)
(* exchanges files whenever it likes.  There is one file system object,    *)
(* one window of one sector for the FAT and the directories, and one       *)
(* current_dir for both tasks.                                             *)
(*                                                                         *)
(* A step is an access to the card with the work up to the next one.  The  *)
(* calls of the two tasks alternate, they do not overlap: FatFs is built   *)
(* with FF_FS_REENTRANT 0 and gives no promise for calls that do.  A read  *)
(* of the card fails or delivers its sectors (SdTransfer), and SD_GetState *)
(* may get no answer.  Volumes are FAT32; an entry of the model stands for *)
(* an entry of the directory with its long name.                           *)
(***************************************************************************)
EXTENDS Integers, Sequences, SequencesExt

CONSTANTS
    Layout,           \* Layout[v]: what the card holds when its content is v
    FatPerSector,     \* FAT entries in a sector
    EntriesPerSector, \* directory entries in a sector
    SectorSize,       \* SS(fs): units of data in a sector
    Btr,              \* units a play asks for, whole sectors
    MaxDir,           \* MAX_DIR: entries of a directory that are looked at
    MaxStarts, MaxLists, MaxSwaps, MaxFaults   \* bounds

\* A content: csize, sectors of a cluster; nfat, entries of the FAT (n_fatent);
\* fsize, sectors of the FAT; root, the first cluster of the root directory;
\* mbr, whether sector 0 is a partition table; next, the FAT; and entries, what
\* a cluster holds if it is read as a directory: End, Free or what f_open and ls
\* look at of an entry.
Volumes == DOMAIN Layout
Geometry(v) == [csize |-> Layout[v].csize, nfat |-> Layout[v].nfat, mbr |-> Layout[v].mbr,
                fsize |-> Layout[v].fsize, root |-> Layout[v].root]
Clusters(v) == 2 .. Layout[v].nfat - 1

ASSUME LayoutAssumption ==
    \A v \in Volumes :
        /\ {Layout[v].csize, Layout[v].fsize, Layout[v].root} \subseteq Nat
        /\ Layout[v].csize > 0 /\ Layout[v].nfat \in Nat /\ Layout[v].nfat > 2
        /\ Layout[v].next \in [Clusters(v) -> Nat]
        /\ Clusters(v) = DOMAIN Layout[v].entries
        /\ \A c \in Clusters(v) :
               LET content == Layout[v].entries[c] IN
               /\ DOMAIN content = 1 .. Layout[v].csize * EntriesPerSector
               /\ \A i \in DOMAIN content : {content[i].sclust, content[i].size} \subseteq Nat
ASSUME SizesAssumption ==
    /\ {FatPerSector, EntriesPerSector, SectorSize, MaxDir} \subseteq Nat \ {0}
    /\ Btr \in Nat \ {0} /\ Btr % SectorSize = 0

VARIABLES
    card,      \* the content of the card
    mounted,   \* FatFs[0] is the file system object ...
    valid,     \* ... and its fs_type is not 0
    fsid,      \* Fsid, and fs.id of a valid object
    vbr,       \* the content whose boot sector gave the boundaries and limits
    win,       \* fs.win: [sect, vol], the sector and the content it was read from
    dirs,      \* the DIR objects: "current" is current_dir, "open" f_open's own
    fp,        \* the player's FIL object
    at,        \* at[t]: the call the program of a task has reached
    stage,     \* stage[t]: where task t is in it
    res,       \* the static res of board_fatfs_interface.c
    fno,       \* the static fno: the entry of the last f_readdir, End at the end
    btr, got,  \* btr and *br of the f_read
    faults, swaps, started, lists,   \* bounds: how many so far
    strayed,   \* history: a sector was read that is none of the volume
    taken,     \* history: what the play has read
    during,    \* history: during[t], the contents of the card since t began
    hurt,      \* history: a fault or another mount came during the play
    listed,    \* history: the entries ls has written
    rewound    \* history: a play used current_dir and res during the ls

diskVars == <<faults, strayed, hurt>>
fsVars   == <<mounted, valid, fsid, vbr>>
readVars == <<fp, btr, got, taken>>
hostVars == <<card, swaps, during>>
listVars == <<started, lists, listed, rewound>>
fatVars == <<hostVars, diskVars, fsVars, win, dirs, readVars, at, stage, res, fno, listVars>>

Tasks == {"player", "console"}
Null == <<>>
\* The entry a directory ends with, and one that is free.
Marker(kind) == [name |-> kind, dir |-> FALSE, sclust |-> 0, size |-> 0]
End  == Marker("end")
Free == Marker("free")
NoWindow == [sect |-> Null, vol |-> 0]
NoDir  == [open |-> FALSE, id |-> 0, dptr |-> 0, clust |-> 0, sect |-> Null]
NoFile == [open |-> FALSE, id |-> 0, sclust |-> 0, size |-> 0, fptr |-> 0, clust |-> 0,
           err |-> FALSE]
NextEntry(w, i) == Layout[w.vol].entries[w.sect[2]][w.sect[3] * EntriesPerSector + i + 1]

FatInit ==
    /\ card \in Volumes /\ vbr = card
    /\ mounted = FALSE /\ valid = FALSE /\ fsid = 0 /\ win = NoWindow
    /\ dirs = [d \in {"current", "open"} |-> NoDir] /\ fp = NoFile
    /\ at = [t \in Tasks |-> "idle"] /\ stage = [t \in Tasks |-> "out"]
    /\ res = "ok" /\ fno = End /\ btr = 0 /\ got = 0
    /\ faults = 0 /\ swaps = 0 /\ started = 0 /\ lists = 0 /\ strayed = FALSE
    /\ taken = <<>> /\ during = [t \in Tasks |-> {}]
    /\ hurt = FALSE /\ listed = <<>> /\ rewound = FALSE

----------------------------------------------------------------------------
(* The disk. *)

InFat(c) == c \in Clusters(vbr)
OfVolume(s) == \/ s \in {<<"boot", 0>>, <<"boot", 1>>, <<"fsinfo">>}
               \/ s[1] = "fat" /\ s[2] < Layout[vbr].fsize
               \/ s[1] = "data" /\ InFat(s[2]) /\ s[3] < Layout[vbr].csize

\* disk_read of the sectors, or disk_status when there are none.
Disk(sects, ok) ==
    /\ ok \/ faults < MaxFaults
    /\ faults' = IF ok THEN faults ELSE faults + 1
    /\ strayed' = (strayed \/ \E s \in sects : ~OfVolume(s))
    /\ hurt' = (at["player"] # "idle" /\ (hurt \/ ~ok))

\* move_window.
Window(s, ok) ==
    IF s = win.sect THEN ok /\ UNCHANGED <<win, diskVars>>
    ELSE /\ Disk({s}, ok)
         /\ win' = IF ok THEN [sect |-> s, vol |-> card] ELSE NoWindow

\* The host changes the files of the card, it does not format it.
Swap ==
    /\ swaps < MaxSwaps
    /\ \E v \in Volumes \ {card} :
           /\ Geometry(v) = Geometry(card)
           /\ card' = v
           /\ during' = [t \in Tasks |-> IF at[t] = "idle" THEN {} ELSE during[t] \cup {v}]
    /\ swaps' = swaps + 1
    /\ UNCHANGED <<diskVars, fsVars, win, dirs, readVars, at, stage, res, fno, listVars>>

----------------------------------------------------------------------------
(* Clusters. *)

\* clst2sect: sector s of cluster c.
UncheckedSector(c, s) == <<"data", c, s>>              \* mutant
ClusterSector(c, s) == IF InFat(c) THEN <<"data", c, s>> ELSE Null

\* get_fat: 1 for a cluster the FAT has no entry of, DiskError when it is not read.
DiskError == -1
GetFat(c, val) ==
    IF ~InFat(c) THEN val = 1 /\ UNCHANGED <<win, diskVars>>
    ELSE \E ok \in BOOLEAN :
             /\ Window(<<"fat", c \div FatPerSector>>, ok)
             /\ val = IF ok THEN Layout[win'.vol].next[c] ELSE DiskError
FatValues == UNION {{Layout[v].next[c] : c \in Clusters(v)} : v \in Volumes} \cup {1, DiskError}

----------------------------------------------------------------------------
(* Calls. *)

Inside(t) == stage[t] \notin {"out", "done"}
Proceed(t, p) == stage' = [stage EXCEPT ![t] = p]

\* What Music_Player calls after a result: that of the mount and of f_opendir is
\* only printed, and the loop looks at got alone.
ResultLooked(r) ==                                      \* mutant
    CASE at["player"] = "mount" -> "opendir"
      [] at["player"] = "opendir" -> "open"
      [] at["player"] \in {"open", "header"} ->
             IF r # "ok" THEN "unmount" ELSE IF at["player"] = "open" THEN "header" ELSE "loop"
      [] at["player"] = "loop" -> IF r # "ok" THEN "unmount" ELSE "loop"
NextCall(r) ==
    CASE at["player"] = "mount" -> "opendir"
      [] at["player"] = "opendir" -> "open"
      [] at["player"] = "open" -> IF r = "ok" THEN "header" ELSE "unmount"
      [] at["player"] = "header" -> IF r = "ok" THEN "loop" ELSE "unmount"
      [] at["player"] = "loop" -> IF got = 0 THEN "unmount" ELSE "loop"

\* A function returns.  In board_fatfs_interface.c the result waits in res until
\* the console looks at it; the variables of f_read are gone, and *br is 0 when the
\* next one starts.
Return(t, r) ==
    /\ res' = IF at[t] \in {"opendir", "ls_opendir", "readdir"} THEN r ELSE res
    /\ IF t = "player" THEN /\ Proceed(t, "out") /\ at' = [at EXCEPT ![t] = NextCall(r)]
                            /\ btr' = 0 /\ got' = 0
       ELSE Proceed(t, "done") /\ UNCHANGED <<at, btr, got>>
Stay == UNCHANGED <<res, at, btr, got>>

\* A task calls the next function: f_mount puts the object back to where it is
\* not valid, f_mount(0, ...) ends with that.
KeepVolume == UNCHANGED valid                           \* mutant
ForgetVolume == valid' = FALSE
Enter(t) ==
    /\ at[t] \notin {"idle", "listed"} /\ stage[t] = "out" /\ \A u \in Tasks : ~Inside(u)
    /\ \/ /\ at[t] = "mount"
          /\ mounted' = TRUE /\ ForgetVolume /\ Proceed(t, "mount") /\ UNCHANGED <<at, taken>>
       \/ /\ at[t] = "unmount"
          /\ mounted' = FALSE /\ valid' = FALSE
          /\ at' = [at EXCEPT ![t] = "idle"] /\ taken' = <<>> /\ UNCHANGED stage
       \/ /\ at[t] \in {"opendir", "ls_opendir", "open"}
          /\ Proceed(t, "mount") /\ UNCHANGED <<mounted, valid, at, taken>>
       \/ /\ at[t] \in {"header", "loop", "readdir"}
          /\ Proceed(t, "validate") /\ UNCHANGED <<mounted, valid, at, taken>>
    /\ hurt' = (at'["player"] # "idle" /\ (hurt \/ (t = "console" /\ at[t] = "mount")))
    /\ rewound' = (at["console"] # "idle" /\ (rewound \/ (t = "player" /\ at[t] = "opendir")))
    /\ UNCHANGED <<hostVars, faults, strayed, fsid, vbr, win, dirs, fp, btr, got, res, fno,
                   started, lists, listed>>

\* dir_sdi( dp, 0 ): the root directory from its first entry.
RootStart(id, v) ==
    LET root == Layout[v].root IN
    [open |-> TRUE, id |-> id, dptr |-> 0, clust |-> root,
     sect |-> IF root \in Clusters(v) THEN <<"data", root, 0>> ELSE Null]

\* A function whose volume is not mounted, or has no root directory, leaves no
\* object behind.
Refuse(t) ==
    /\ Return(t, "error")
    /\ dirs' = IF at[t] \in {"opendir", "ls_opendir"} THEN [dirs EXCEPT !["current"].open = FALSE]
               ELSE dirs
    /\ fp' = IF at[t] = "open" THEN [fp EXCEPT !.open = FALSE] ELSE fp

\* What a function does once its volume is mounted: f_mount returns; f_opendir
\* of "" is the root directory; f_open looks for the name in it.
Mounted(t, id, v) ==
    LET start == RootStart(id, v) IN
    \/ at[t] = "mount" /\ Return(t, "ok") /\ UNCHANGED <<dirs, fp>>
    \/ at[t] # "mount" /\ start.sect = Null /\ Refuse(t)
    \/ /\ at[t] \in {"opendir", "ls_opendir"} /\ start.sect # Null
       /\ dirs' = [dirs EXCEPT !["current"] = start]
       /\ Return(t, "ok") /\ UNCHANGED fp
    \/ /\ at[t] = "open" /\ start.sect # Null
       /\ dirs' = [dirs EXCEPT !["open"] = start]
       /\ Proceed(t, "find") /\ Stay /\ UNCHANGED fp

\* mount_volume: a valid object is used as it is as long as the card answers.
MountVolume(t) ==
    /\ stage[t] = "mount"
    /\ \/ ~mounted /\ Refuse(t) /\ UNCHANGED <<valid, diskVars>>
       \/ /\ mounted /\ valid
          /\ \E ok \in BOOLEAN :
                 /\ Disk({}, ok)
                 /\ IF ok THEN Mounted(t, fsid, vbr) /\ UNCHANGED valid
                    ELSE valid' = FALSE /\ Proceed(t, "boot") /\ Stay /\ UNCHANGED <<dirs, fp>>
       \/ /\ mounted /\ ~valid
          /\ Proceed(t, "boot") /\ Stay /\ UNCHANGED <<valid, dirs, fp, diskVars>>
    /\ UNCHANGED <<hostVars, mounted, fsid, vbr, win, taken, fno, listVars>>

\* find_volume, check_fs: the window is read anew.
CheckFs(t) ==
    LET s == IF stage[t] = "boot" THEN <<"boot", 0>> ELSE <<"boot", 1>> IN
    /\ stage[t] \in {"boot", "partition"}
    /\ \E ok \in BOOLEAN :
           /\ Disk({s}, ok)
           /\ win' = IF ok THEN [sect |-> s, vol |-> card] ELSE NoWindow
           /\ IF ~ok THEN Refuse(t)
              ELSE /\ Proceed(t, IF stage[t] = "boot" /\ Layout[card].mbr THEN "partition" ELSE "bpb")
                   /\ Stay /\ UNCHANGED <<dirs, fp>>
    /\ UNCHANGED <<hostVars, fsVars, taken, fno, listVars>>

\* The boundaries and limits of the volume; its FAT must have room for all
\* clusters.  The FSInfo sector may be missed.
FatHasRoom(v) == Layout[v].fsize * FatPerSector >= Layout[v].nfat
ReadBpb(t) ==
    /\ stage[t] = "bpb"
    /\ IF ~FatHasRoom(win.vol) THEN Refuse(t) /\ UNCHANGED <<valid, fsid, vbr, win, diskVars>>
       ELSE /\ \E ok \in BOOLEAN : Window(<<"fsinfo">>, ok)
            /\ valid' = TRUE /\ fsid' = fsid + 1 /\ vbr' = win.vol
            /\ Mounted(t, fsid + 1, win.vol)
    /\ UNCHANGED <<hostVars, mounted, taken, fno, listVars>>
----------------------------------------------------------------------------
(* Directories. *)

\* dir_next of directory d, with its result.
DirNext(d, r) ==
    LET dp == dirs[d]
        ofs == dp.dptr + 1
        newSector  == ofs % EntriesPerSector = 0
        newCluster == newSector /\ (ofs \div EntriesPerSector) % Layout[vbr].csize = 0
        Set(s, p, c) == dirs' = [dirs EXCEPT ![d].sect = s, ![d].dptr = p, ![d].clust = c]
        InNext == <<"data", dp.sect[2], dp.sect[3] + 1>>
        Broken == IF stage["console"] = "skip" /\ d = "current" THEN Null ELSE InNext  \* dir_read closes
    IN  CASE dp.sect = Null \/ ofs >= MaxDir ->
                 r = "nofile" /\ Set(Null, dp.dptr, dp.clust) /\ UNCHANGED <<win, diskVars>>
          [] dp.sect # Null /\ ofs < MaxDir /\ ~newCluster ->
                 /\ r = "ok" /\ Set(IF newSector THEN InNext ELSE dp.sect, ofs, dp.clust)
                 /\ UNCHANGED <<win, diskVars>>
          [] OTHER -> \E val \in FatValues :
                 /\ GetFat(dp.clust, val)
                 /\ CASE val \in {0, 1, DiskError} ->
                             r = "error" /\ Set(Broken, dp.dptr, dp.clust)
                      [] val >= Layout[vbr].nfat ->
                             r = "nofile" /\ Set(Null, dp.dptr, dp.clust)
                      [] OTHER -> r = "ok" /\ Set(ClusterSector(val, 0), ofs, val)
Results == {"ok", "nofile", "error"}

\* validate of the object and of the card.
Validate(obj, ok) ==
    IF obj.open /\ valid /\ obj.id = fsid THEN Disk({}, ok) ELSE ~ok /\ UNCHANGED diskVars

\* f_readdir of current_dir ...
ReaddirStart ==
    /\ stage["console"] = "validate"
    /\ \E ok \in BOOLEAN :
           /\ Validate(dirs["current"], ok)
           /\ IF ok THEN Proceed("console", "entry") /\ Stay ELSE Return("console", "error")
    /\ UNCHANGED <<hostVars, fsVars, win, dirs, fp, taken, fno, listVars>>

\* ... dir_read, up to an entry or the end, which get_fileinfo returns ...
ReaddirEntry ==
    /\ stage["console"] = "entry"
    /\ IF dirs["current"].sect = Null
       THEN fno' = End /\ Return("console", "ok") /\ UNCHANGED <<win, dirs, diskVars>>
       ELSE \E ok \in BOOLEAN :
                /\ Window(dirs["current"].sect, ok)
                /\ LET e == NextEntry(win', dirs["current"].dptr % EntriesPerSector)
                       close == dirs' = [dirs EXCEPT !["current"].sect = Null] IN
                   CASE ~ok -> close /\ Return("console", "error") /\ UNCHANGED fno
                     [] ok /\ e = End -> close /\ fno' = End /\ Return("console", "ok")
                     [] ok /\ e = Free -> Proceed("console", "skip") /\ Stay /\ UNCHANGED <<fno, dirs>>
                     [] OTHER -> fno' = e /\ Proceed("console", "move") /\ Stay /\ UNCHANGED dirs
    /\ UNCHANGED <<hostVars, fsVars, readVars, at, listVars>>

\* ... and dir_next, inside dir_read over an entry that is free and in f_readdir
\* behind one that is returned.
ReaddirNext ==
    /\ stage["console"] \in {"skip", "move"}
    /\ \E r \in Results :
           /\ DirNext("current", r)
           /\ CASE r = "ok" /\ stage["console"] = "skip" -> Proceed("console", "entry") /\ Stay /\ UNCHANGED fno
                [] r = "nofile" /\ stage["console"] = "skip" -> fno' = End /\ Return("console", "ok")
                [] r # "error" /\ stage["console"] = "move" -> Return("console", "ok") /\ UNCHANGED fno
                [] OTHER -> Return("console", "error") /\ UNCHANGED fno
    /\ UNCHANGED <<hostVars, fsVars, readVars, at, listVars>>

\* f_open: dir_find, up to an entry of the name ...
Name == "a"
OpenFind ==
    /\ stage["player"] = "find"
    /\ \E ok \in BOOLEAN :
           /\ Window(dirs["open"].sect, ok)
           /\ LET e == NextEntry(win', dirs["open"].dptr % EntriesPerSector)
                  fail(r) == Return("player", r) /\ fp' = [fp EXCEPT !.open = FALSE] IN
              CASE ~ok -> fail("error")
                [] ok /\ (e = End \/ (e.name = Name /\ e.dir)) -> fail("nofile")
                [] ok /\ e # End /\ e.name # Name ->
                       Proceed("player", "step") /\ Stay /\ UNCHANGED fp
                [] OTHER ->
                       /\ fp' = [NoFile EXCEPT !.open = TRUE, !.id = fsid,
                                               !.sclust = e.sclust, !.size = e.size]
                       /\ Return("player", "ok")
           /\ dirs' = IF stage'["player"] = "step" THEN dirs ELSE [dirs EXCEPT !["open"] = NoDir]
    /\ UNCHANGED <<hostVars, fsVars, taken, fno, listVars>>

\* ... with dir_next between them.
OpenNext ==
    /\ stage["player"] = "step"
    /\ \E r \in Results :
           /\ DirNext("open", r)
           /\ IF r = "ok" THEN Proceed("player", "find") /\ Stay /\ UNCHANGED fp
              ELSE Return("player", r) /\ fp' = [fp EXCEPT !.open = FALSE]
    /\ UNCHANGED <<hostVars, fsVars, taken, fno, listVars>>
----------------------------------------------------------------------------
(* f_read. *)

MinOf(a, b) == IF a < b THEN a ELSE b
UnitsOf(v, c, s, n) == [i \in 1 .. n |-> <<v, c, s + (i - 1) \div SectorSize, (i - 1) % SectorSize>>]

\* The object, the card, and an error of an earlier call.
ReadStart ==
    /\ stage["player"] = "validate"
    /\ \E ok \in BOOLEAN :
           /\ Validate(fp, ok)
           /\ IF ok /\ ~fp.err
              THEN Proceed("player", "cluster") /\ btr' = MinOf(Btr, fp.size - fp.fptr)
                   /\ UNCHANGED <<res, at, got>>
              ELSE Return("player", "error")
    /\ UNCHANGED <<hostVars, fsVars, win, dirs, fp, taken, fno, listVars>>

\* On a cluster boundary the cluster chain is followed.
ReadCluster ==
    LET boundary == fp.fptr % (Layout[vbr].csize * SectorSize) = 0 IN
    /\ stage["player"] = "cluster"
    /\ IF btr = 0 THEN Return("player", "ok") /\ UNCHANGED <<fp, win, diskVars>>
       ELSE \E val \in FatValues \cup {fp.sclust, fp.clust} :
                /\ IF boundary /\ fp.fptr # 0 THEN GetFat(fp.clust, val)
                   ELSE /\ val = IF boundary THEN fp.sclust ELSE fp.clust
                        /\ UNCHANGED <<win, diskVars>>
                /\ IF val < 2 THEN Return("player", "error") /\ fp' = [fp EXCEPT !.err = TRUE]
                   ELSE Proceed("player", "sector") /\ Stay /\ fp' = [fp EXCEPT !.clust = val]
    /\ UNCHANGED <<hostVars, fsVars, dirs, taken, fno, listVars>>

\* Whole sectors go to the caller's buffer, up to the end of the cluster; what is
\* left of the file goes through the buffer of the FIL object, which it fills anew:
\* a play reads whole sectors until the last piece, and that only once.
Unclipped(n, csect) == n                                \* mutant
Clipped(n, csect) == MinOf(n, Layout[vbr].csize - csect)
ReadSector ==
    LET csect == (fp.fptr \div SectorSize) % Layout[vbr].csize
        sect == ClusterSector(fp.clust, csect)
        whole == btr \div SectorSize
        cc == Clipped(whole, csect)
        Take(n, v) ==
            /\ taken' = taken \o UnitsOf(v, sect[2], sect[3], n)
            /\ btr' = btr - n /\ got' = got + n
            /\ Proceed("player", "cluster") /\ UNCHANGED <<res, at>>
        Abort == Return("player", "error") /\ fp' = [fp EXCEPT !.err = TRUE] /\ UNCHANGED taken
    IN
    /\ stage["player"] = "sector"
    /\ \/ sect = Null /\ Abort /\ UNCHANGED diskVars
       \/ /\ sect # Null /\ whole > 0
          /\ \E ok \in BOOLEAN :
                 /\ Disk({<<"data", fp.clust, csect + i>> : i \in 0 .. cc - 1}, ok)
                 /\ IF ~ok THEN Abort
                    ELSE /\ Take(cc * SectorSize, card)
                         /\ fp' = [fp EXCEPT !.fptr = @ + cc * SectorSize]
       \/ /\ sect # Null /\ whole = 0
          /\ \E ok \in BOOLEAN :
                 /\ Disk({sect}, ok)
                 /\ IF ~ok THEN Abort
                    ELSE Take(btr, card) /\ fp' = [fp EXCEPT !.fptr = @ + btr]
    /\ UNCHANGED <<hostVars, fsVars, win, dirs, fno, listVars>>

----------------------------------------------------------------------------
(* The programs. *)

\* The console's commands, when it waits for a line: ls, and play when the player
\* of the last one is gone.
PlayCommand ==
    /\ at["console"] = "idle" /\ at["player"] = "idle" /\ started < MaxStarts
    /\ started' = started + 1
    /\ at' = [at EXCEPT !["player"] = "mount"]
    /\ taken' = <<>> /\ hurt' = FALSE /\ during' = [during EXCEPT !["player"] = {card}]
    /\ UNCHANGED <<card, swaps, faults, strayed, fsVars, win, dirs, fp, btr, got, stage, res, fno,
                   lists, listed, rewound>>

LsCommand ==
    /\ at["console"] = "idle" /\ lists < MaxLists
    /\ lists' = lists + 1
    /\ at' = [at EXCEPT !["console"] = "mount"]
    /\ listed' = <<>> /\ rewound' = FALSE /\ during' = [during EXCEPT !["console"] = {card}]
    /\ UNCHANGED <<card, swaps, diskVars, fsVars, win, dirs, readVars, stage, res, fno, started>>

\* fatfs_mount_init and fatfs_ls after each call.
ConsoleChecks ==
    /\ stage["console"] = "done"
    /\ at' = [at EXCEPT !["console"] =
                  CASE @ = "mount" -> "opendir"
                    [] @ = "opendir" -> "ls_opendir"
                    [] OTHER -> IF res # "ok" THEN "idle"
                                ELSE IF @ = "readdir" /\ fno = End THEN "listed" ELSE "readdir"]
    /\ listed' = IF at'["console"] = "idle" THEN <<>>
                 ELSE IF at["console"] = "readdir" /\ fno # End THEN Append(listed, fno) ELSE listed
    /\ Proceed("console", "out")
    /\ UNCHANGED <<hostVars, diskVars, fsVars, win, dirs, readVars, res, fno,
                   started, lists, rewound>>

\* "end of dir" is written, the command returns.
EndList ==
    /\ at["console"] = "listed"
    /\ at' = [at EXCEPT !["console"] = "idle"]
    /\ listed' = <<>> /\ rewound' = FALSE
    /\ UNCHANGED <<hostVars, diskVars, fsVars, win, dirs, readVars, stage, res, fno,
                   started, lists>>

Call(t) == Enter(t) \/ MountVolume(t) \/ CheckFs(t) \/ ReadBpb(t)
Player  == Call("player") \/ OpenFind \/ OpenNext \/ ReadStart \/ ReadCluster \/ ReadSector
Console == Call("console") \/ ReaddirStart \/ ReaddirEntry \/ ReaddirNext \/ ConsoleChecks
           \/ EndList

FatNext == Swap \/ PlayCommand \/ LsCommand \/ Player \/ Console

FatSpec == FatInit /\ [][FatNext]_fatVars
\* The processor runs a task that is ready; no more is needed, as neither task
\* can keep going for ever.
FairFatSpec == FatSpec /\ WF_fatVars(Player \/ Console)

----------------------------------------------------------------------------
(* What a content holds, as the FAT file system defines it. *)

\* The n-th cluster of the chain from c, or the first number that is none.
Cluster(v, c, n) ==
    LET chain[k \in 0 .. n] ==
            IF k = 0 THEN c
            ELSE IF chain[k - 1] \in Clusters(v) THEN Layout[v].next[chain[k - 1]]
            ELSE chain[k - 1]
    IN  chain[n]

\* How many of the first n numbers come before one that is not in S.
Leading(n, S) == CHOOSE k \in 0 .. n : 0 .. k - 1 \subseteq S /\ (k < n => k \notin S)

\* Entry i of the root directory.
RootEntry(v, i) ==
    LET perCluster == Layout[v].csize * EntriesPerSector
        c == Cluster(v, Layout[v].root, i \div perCluster)
    IN  IF c \in Clusters(v) THEN Layout[v].entries[c][(i % perCluster) + 1] ELSE End

\* The root directory, as far as directories go, and the first n entries of it
\* that are not free.
DirSize(v) == Leading(MaxDir, {i \in 0 .. MaxDir - 1 : RootEntry(v, i) # End})
DirUpTo(v, n) ==
    LET upto[k \in 0 .. n] ==
            IF k = 0 THEN <<>>
            ELSE IF RootEntry(v, k - 1) = Free THEN upto[k - 1]
            ELSE Append(upto[k - 1], RootEntry(v, k - 1))
    IN  upto[n]
Lists == [v \in Volumes |-> DirUpTo(v, DirSize(v))]

\* Unit i of the file of entry e, and the file as far as its cluster chain goes.
UnitOf(v, e, i) ==
    LET perCluster == Layout[v].csize * SectorSize IN
    <<v, Cluster(v, e.sclust, i \div perCluster), (i % perCluster) \div SectorSize, i % SectorSize>>
InChain(v, e) == {i \in 0 .. e.size - 1 : UnitOf(v, e, i)[2] \in Clusters(v)}
UnitsIn(v, e) == [i \in 1 .. Leading(e.size, InChain(v, e)) |-> UnitOf(v, e, i - 1)]

\* The file of the play: the first entry of its name.
Named(v) == {i \in 0 .. DirSize(v) - 1 : RootEntry(v, i).name = Name}
FirstNamed(v) == RootEntry(v, CHOOSE i \in Named(v) : \A j \in Named(v) : i <= j)
FileIn(v) == IF ~FatHasRoom(v) \/ Named(v) = {} \/ FirstNamed(v).dir THEN <<>>
             ELSE UnitsIn(v, FirstNamed(v))
Files == [v \in Volumes |-> FileIn(v)]

----------------------------------------------------------------------------
(* Properties. *)

\* As long as the host leaves the card alone, what a play has read is the
\* beginning of its file, in order, without a gap: across cluster boundaries,
\* whatever ls reads or mounts in between and wherever the card fails.  And
\* when nothing failed and no ls came, it ends with the whole file.
TakenIsFile ==
    \A v \in Volumes : during["player"] = {v} =>
        /\ IsPrefix(taken, Files[v])
        /\ at["player"] = "unmount" /\ ~hurt => taken = Files[v]

\* A list that ends with "end of dir" is the directory the card holds now,
\* whatever was mounted, read or exchanged by the host before: nothing stale
\* comes from the window, from an earlier mount or from a play that goes on.
\* (A play that starts meanwhile rewinds the directory object they share.)
ListIsFresh ==
    at["console"] = "listed" /\ ~rewound =>
        \A v \in Volumes : during["console"] = {v} => listed = Lists[v]

\* Whatever stands in the FAT and in the directories, only sectors of the volume
\* are read.
InVolume == ~strayed

\* Every play and every ls ends, even in a directory whose clusters are a ring.
CommandsEnd == \A t \in Tasks : at[t] # "idle" ~> at[t] = "idle"
=============================================================================
