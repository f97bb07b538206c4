------------------------------- MODULE FsExec -------------------------------
(***************************************************************************)
(* The requests of fs.exec: the handlers of rp_fs_mailbox.cpp, the current *)
(* directories and path resolution of rp_fs_path.cpp, and the operations   *)
(* of rp_fs.cpp on files and directories.                                  *)
(*                                                                         *)
(* A request runs to its end inside taskMailbox and is one step here; how  *)
(* it is submitted and answered is in Mailbox, the access to the caller's  *)
(* context in Bus, the sticks and what happens to one that is pulled out   *)
(* in the middle of a call in UsbStorage.  Here a stick comes and goes     *)
(* between requests.  FatFs is modelled as this code uses it: directories  *)
(* are kept as the set of their paths, files by their sizes, and any call  *)
(* may fail.                                                               *)
(*                                                                         *)
(* An address is a number below Mem; what a pointer to a string points to, *)
(* is an input of the request.  An argument block with a wrong reserved    *)
(* byte is refused like one out of range, and has no input of its own.     *)
(***************************************************************************)
EXTENDS Integers, Sequences, FiniteSets

CONSTANTS
  MAX_PROCS, MAX_DEVICES, MAX_HANDLES,
  PATH_MAX, CWD_MAX,     \* sizes of buffers of paths, the final NUL included
  Names, NameLength,     \* valid 8.3 components, and how long each is
  Mem,                   \* 65536: the addresses of a context
  PRIVATE_LIMIT, CHUNK_SIZE, DIRENT_SIZE,
  MaxSize, MaxEntries,   \* what fits on a stick: in a file, and in all
  MaxOffset,             \* 2^32 - 1: where a seek may ask to go
  Inputs,                \* paths asked for
  Args,                  \* pointers to argument blocks
  Strings,               \* of paths: argument block, pointer, maximum length
  Buffers,               \* a pointer and a length
  Offsets,               \* of seeks
  FirstDisk              \* what is on a stick that is plugged in

None == -1
DIR  == -1
Bad  == <<"?">>

Pids    == 0 .. MAX_PROCS - 1
Devices == 0 .. MAX_DEVICES - 1
Handles == 0 .. MAX_HANDLES - 1
Pools   == {"file", "dir"}
Flags   == SUBSET {"READ", "WRITE"}

ASSUME FsAssumption ==
  /\ {MAX_PROCS, MAX_DEVICES, MAX_HANDLES, CHUNK_SIZE, DIRENT_SIZE} \subseteq Nat \ {0}
  /\ {PATH_MAX, CWD_MAX, Mem, PRIVATE_LIMIT, MaxSize, MaxEntries} \subseteq Nat
  /\ MAX_DEVICES <= 10
  /\ {".", "..", Bad[1]} \intersect Names = {} /\ NameLength \in [Names -> Nat \ {0}]
  /\ CWD_MAX + 3 < PATH_MAX /\ CWD_MAX > 0
  /\ PRIVATE_LIMIT < Mem
  /\ MaxOffset \in Nat /\ MaxSize <= MaxOffset

\* What the 6502 can send, and what a stick can hold.
ASSUME InputAssumption ==
  /\ Args \subseteq Nat /\ Strings \subseteq Nat \X Nat \X Nat
  /\ Buffers \subseteq Nat \X Nat /\ Offsets \subseteq Int
  /\ \A i \in Inputs : i.comps \in Seq(Names \union {".", "..", Bad[1]})
  /\ \A p \in DOMAIN FirstDisk : p \in Seq(Names) /\ FirstDisk[p] \in {DIR} \union 0 .. MaxSize

VARIABLES
  mounted,   \* drives with a stick
  disk,      \* entries of a drive: a path is DIR or has a size
  files,     \* gRPFSHandles
  dirs,      \* gRPFSDirHandles; index counts the entries already read
  cwd,       \* gRPFSProcessCwd, valid since rp_fs_cwd_reset_all
  reply,     \* the last request, its RP_ERR, and the handle it was about
  wrote,     \* the pieces of 6502 memory it wrote, as <<start, count>>
  owned      \* history: handles that the 6502 knows of, by the answers it got

vars == <<mounted, disk, files, dirs, cwd, reply, wrote, owned>>

NoFile == [in_use |-> FALSE, device |-> 0, path |-> <<>>, flags |-> {}, pos |-> 0, size |-> 0]
NoDir  == [in_use |-> FALSE, device |-> 0, path |-> <<>>, index |-> 0]
Empty  == [p \in {} |-> DIR]
Root(d) == [device |-> d, path |-> <<>>]

TypeOK ==
  /\ mounted \subseteq Devices
  /\ \A d \in Devices : \A p \in DOMAIN disk[d] :
       p \in Seq(Names) /\ disk[d][p] \in {DIR} \union 0 .. MaxSize
  /\ \A h \in Handles :
       /\ files[h].in_use => files[h].device \in mounted /\ files[h].flags \in Flags \ {{}}
       /\ files[h].size \in 0 .. MaxSize /\ files[h].pos \in 0 .. files[h].size
       /\ dirs[h].in_use => dirs[h].device \in mounted
  /\ \A p \in Pids : cwd[p].device \in Devices /\ cwd[p].path \in Seq(Names)
  /\ reply.err \in {"OK", "EINVAL", "ENOENT", "EIO", "ENOMEM"}
  /\ owned \subseteq Pools \X Handles

Init ==
  /\ mounted = {}
  /\ disk = [d \in Devices |-> Empty]
  /\ files = [h \in Handles |-> NoFile]
  /\ dirs = [h \in Handles |-> NoDir]
  /\ cwd = [p \in Pids |-> Root(0)]
  /\ reply = [op |-> "none", err |-> "OK", handle |-> None]
  /\ wrote = {}
  /\ owned = {}

First(S) == CHOOSE i \in S : \A j \in S : i <= j
Least(a, b) == IF a <= b THEN a ELSE b

-----------------------------------------------------------------------------
\* Paths.  A path is a sequence of components; an input has a drive or None,
\* perhaps a leading slash, and components that may be "." and "..".

strlen(p) ==
  LET upTo[n \in 0 .. Len(p)] ==
        IF n = 0 THEN 0
        ELSE upTo[n - 1] + (IF p[n] \in Names THEN NameLength[p[n]] ELSE Len(p[n]))
  IN IF p = <<>> THEN 0 ELSE upTo[Len(p)] + Len(p) - 1

InputLength(i) ==
  strlen(i.comps) + (IF i.drive # None THEN 3 ELSE IF i.root THEN 1 ELSE 0)

Parent(p) == SubSeq(p, 1, Len(p) - 1)

rp_fs_path_pop_component(p) == IF p = <<>> THEN p ELSE Parent(p)

rp_fs_path_append_component(p, c) ==
  IF strlen(Append(p, c)) >= PATH_MAX THEN Bad ELSE Append(p, c)

rp_fs_path_component_valid_83(c) == c \in Names

Walk(from, comps) ==
  LET after[n \in 0 .. Len(comps)] ==
        IF n = 0 THEN from
        ELSE CASE after[n - 1] = Bad \/ comps[n] = "." -> after[n - 1]
               [] comps[n] = ".." /\ after[n - 1] # Bad -> rp_fs_path_pop_component(after[n - 1])
               [] OTHER -> IF rp_fs_path_component_valid_83(comps[n])
                           THEN rp_fs_path_append_component(after[n - 1], comps[n]) ELSE Bad
  IN after[Len(comps)]

\* The fallback device of the request is not used: every slot is valid.
rp_fs_resolve_process_path(pid, i) ==
  LET device == IF i.drive # None THEN i.drive ELSE cwd[pid].device
      from == IF i.drive # None \/ i.root THEN <<>> ELSE cwd[pid].path
  IN [device |-> device, path |-> IF device \in Devices THEN Walk(from, i.comps) ELSE Bad]

\* Takes a path of any length.
MutantCwdSet(to) == to.device \in Devices

\* What it refuses to keep.
rp_fs_cwd_set(to) == to.device \in Devices /\ strlen(to.path) < CWD_MAX

\* N:/path, if it fits the buffer.
rp_fs_cwd_format(pid) ==
  [drive |-> cwd[pid].device, root |-> FALSE,
   comps |-> IF 3 + strlen(cwd[pid].path) + 1 > PATH_MAX THEN Bad ELSE cwd[pid].path]

-----------------------------------------------------------------------------
\* The caller's memory.

rp_fs_mb_private_range(address, length) ==
  /\ address # 0 /\ length # 0 /\ address < PRIVATE_LIMIT
  /\ address + length <= PRIVATE_LIMIT

\* Lets a transfer end one byte beyond the context.
MutantRange(start, count) == count = 0 \/ (IF count = Mem THEN start = 0 ELSE start + count - 1 <= Mem)

rp_fs_mb_valid_64k_range(start, count) ==
  count = 0 \/ (IF count = Mem THEN start = 0 ELSE start + count - 1 <= Mem - 1)

\* A string that starts at s[1], with its NUL within s[2] bytes of private memory.
rp_fs_mb_read_context_path(s, i) ==
  /\ s[1] # 0 /\ s[2] \in 1 .. PATH_MAX
  /\ InputLength(i) \in 1 .. s[2] - 1
  /\ s[1] + InputLength(i) < PRIVATE_LIMIT

rp_fs_mb_resolve_arg_path(pid, s, i) ==
  IF rp_fs_mb_read_context_path(s, i) THEN rp_fs_resolve_process_path(pid, i)
  ELSE [device |-> 0, path |-> Bad]

-----------------------------------------------------------------------------
\* FatFs.

IsDir(d, p) == p = <<>> \/ (p \in DOMAIN disk[d] /\ disk[d][p] = DIR)
IsFile(d, p) == p \in DOMAIN disk[d] /\ disk[d][p] # DIR
Under(d, p) == {q \in DOMAIN disk[d] : Len(q) >= Len(p) /\ SubSeq(q, 1, Len(p)) = p}
Children(d, p) == {q \in Under(d, p) : Len(q) = Len(p) + 1}

\* A new entry has a directory to be in and room on the stick.
Creatable(d, p) ==
  p # <<>> /\ IsDir(d, Parent(p)) /\ Cardinality(DOMAIN disk[d]) < MaxEntries

With(d, p, what) ==
  [disk EXCEPT ![d] = [q \in DOMAIN @ \union {p} |-> IF q = p THEN what ELSE @[q]]]
Without(d, S) == [disk EXCEPT ![d] = [q \in DOMAIN @ \ S |-> @[q]]]

f_open(d, p, mode) ==
  /\ d \in mounted
  /\ IsFile(d, p) \/ (mode \in {"WRITE_TRUNC", "RW_CREATE"} /\ ~IsDir(d, p) /\ Creatable(d, p))

Opened(d, p, mode) ==
  IF IsFile(d, p) /\ mode # "WRITE_TRUNC" THEN disk ELSE With(d, p, 0)

\* FF_FS_LOCK is 0: files and directories that are open are removed, too.
f_unlink(d, p) == d \in mounted /\ p \in DOMAIN disk[d] /\ Children(d, p) = {}

f_rename(d, p, q) ==
  /\ d \in mounted /\ p \in DOMAIN disk[d] /\ q # <<>>
  /\ q = p \/ (q \notin DOMAIN disk[d] /\ IsDir(d, Parent(q)))

\* A directory that is moved into itself is lost with all in it.
Renamed(d, p, q) ==
  LET rest(r) == SubSeq(r, Len(p) + 1, Len(r))
      kept == DOMAIN disk[d] \ Under(d, p)
      moved == IF Len(q) > Len(p) /\ SubSeq(q, 1, Len(p)) = p THEN {}
               ELSE {q \o rest(r) : r \in Under(d, p)}
  IN [disk EXCEPT ![d] = [r \in kept \union moved |->
        IF r \in kept THEN @[r] ELSE @[p \o SubSeq(r, Len(q) + 1, Len(r))]]]

\* f_close: what was written through this handle becomes the file's size, if
\* the entry is still there.
Synced(f) ==
  IF f.in_use /\ "WRITE" \in f.flags /\ IsFile(f.device, f.path)
  THEN With(f.device, f.path, f.size) ELSE disk

-----------------------------------------------------------------------------
\* How a handler ends.

Answer(op, err, h) == reply' = [op |-> op, err |-> err, handle |-> h]

Refuse(op, err) ==
  /\ Answer(op, err, None) /\ wrote' = {}
  /\ UNCHANGED <<mounted, disk, files, dirs, cwd>>

Done(op, pieces) == Answer(op, "OK", None) /\ wrote' = pieces /\ UNCHANGED mounted

\* What the 6502 learns of handles from an answer: it has one more after an
\* OPEN that was answered with it; after a CLOSE it has it no longer, unless it
\* was told that there is no such handle, nor any after a reset.
Given(r) ==
  CASE r.op = "OPEN" /\ r.err = "OK" -> {<<"file", r.handle>>}
    [] r.op = "OPENDIR" /\ r.err = "OK" -> {<<"dir", r.handle>>}
    [] OTHER -> {}

Taken(r) ==
  CASE r.op = "CLOSE" /\ r.err # "EINVAL" -> {<<"file", r.handle>>}
    [] r.op = "CLOSEDIR" /\ r.err # "EINVAL" -> {<<"dir", r.handle>>}
    [] r.op = "reset" -> Pools \X Handles
    [] OTHER -> {}

\* Why a call on a drive failed.
Failure(d) == IF d \in mounted THEN "ENOENT" ELSE "EIO"

FreeFiles == {h \in Handles : ~files[h].in_use}
FreeDirs == {h \in Handles : ~dirs[h].in_use}

\* The tables after an open and a close: a close frees the handle whether or
\* not FatFs could do it.
Opening(table, h, f) == [table EXCEPT ![h] = f]
rp_fs_close(table, h) == [table EXCEPT ![h] = NoFile]
rp_fs_closedir(table, h) == [table EXCEPT ![h] = NoDir]

-----------------------------------------------------------------------------
\* The handlers.  io: FatFs meets no error on the stick; fault: where it does.

rp_fs_open_mode_83(d, p, mode) ==
  [in_use |-> TRUE, device |-> d, path |-> p, pos |-> 0,
   flags |-> CASE mode = "READ" -> {"READ"}
               [] mode \in {"WRITE_TRUNC", "WRITE_EXISTING"} -> {"WRITE"}
               [] OTHER -> {"READ", "WRITE"},
   size |-> IF IsFile(d, p) /\ mode # "WRITE_TRUNC" THEN disk[d][p] ELSE 0]

rp_fs_mb_exec_open(pid, args, s, i, mode, io) ==
  LET to == rp_fs_mb_resolve_arg_path(pid, s, i)
      h == First(FreeFiles)
  IN IF ~rp_fs_mb_private_range(args, 6) \/ to.path = Bad THEN Refuse("OPEN", "EINVAL")
     ELSE IF FreeFiles = {} THEN Refuse("OPEN", "ENOMEM")
     ELSE IF ~io \/ ~f_open(to.device, to.path, mode) THEN Refuse("OPEN", Failure(to.device))
     ELSE /\ files' = Opening(files, h, rp_fs_open_mode_83(to.device, to.path, mode))
          /\ disk' = Opened(to.device, to.path, mode)
          /\ Answer("OPEN", "OK", h) /\ wrote' = {}
          /\ UNCHANGED <<mounted, dirs, cwd>>

\* DELETE and RMDIR both unlink; only a drive's root is kept from them.
rp_fs_mb_exec_single_path(op, pid, args, s, i, io) ==
  LET to == rp_fs_mb_resolve_arg_path(pid, s, i)
      can == IF op = "MKDIR" THEN /\ to.device \in mounted
                                  /\ to.path \notin DOMAIN disk[to.device]
                                  /\ Creatable(to.device, to.path)
             ELSE f_unlink(to.device, to.path)
  IN IF ~rp_fs_mb_private_range(args, 6) \/ to.path = Bad THEN Refuse(op, "EINVAL")
     ELSE IF ~io \/ ~can THEN Refuse(op, Failure(to.device))
     ELSE /\ disk' = IF op = "MKDIR" THEN With(to.device, to.path, DIR)
                     ELSE Without(to.device, {to.path})
          /\ Done(op, {}) /\ UNCHANGED <<files, dirs, cwd>>

rp_fs_mb_exec_rename(pid, args, s, i, j, io) ==
  LET old == rp_fs_mb_resolve_arg_path(pid, s, i)
      new == rp_fs_mb_resolve_arg_path(pid, s, j)
  IN IF ~rp_fs_mb_private_range(args, 8) \/ Bad \in {old.path, new.path} \/ old.device # new.device
     THEN Refuse("RENAME", "EINVAL")
     ELSE IF ~io \/ ~f_rename(old.device, old.path, new.path)
          THEN Refuse("RENAME", Failure(old.device))
     ELSE /\ disk' = Renamed(old.device, old.path, new.path)
          /\ Done("RENAME", {}) /\ UNCHANGED <<files, dirs, cwd>>

\* Without a free handle, too, the answer is ENOENT.
rp_fs_opendir_83(to) == FreeDirs # {} /\ to.device \in mounted /\ IsDir(to.device, to.path)

rp_fs_dir(to) == [in_use |-> TRUE, device |-> to.device, path |-> to.path, index |-> 0]

rp_fs_mb_exec_opendir(pid, args, s, i, io) ==
  LET to == rp_fs_mb_resolve_arg_path(pid, s, i)
      h == First(FreeDirs)
  IN IF ~rp_fs_mb_private_range(args, 6) \/ to.path = Bad THEN Refuse("OPENDIR", "EINVAL")
     ELSE IF ~io \/ ~rp_fs_opendir_83(to) THEN Refuse("OPENDIR", Failure(to.device))
     ELSE /\ dirs' = Opening(dirs, h, rp_fs_dir(to))
          /\ Answer("OPENDIR", "OK", h) /\ wrote' = {}
          /\ UNCHANGED <<mounted, disk, files, cwd>>

\* Leaves the directory open that cannot be kept.
MutantChdir(pid, args, s, i, fault) ==
  LET to == rp_fs_mb_resolve_arg_path(pid, s, i)
      h == First(FreeDirs)
      opened == Opening(dirs, h, rp_fs_dir(to))
  IN IF ~rp_fs_mb_private_range(args, 6) \/ to.path = Bad THEN Refuse("CHDIR", "EINVAL")
     ELSE IF fault = "open" \/ ~rp_fs_opendir_83(to) THEN Refuse("CHDIR", Failure(to.device))
     ELSE /\ UNCHANGED <<mounted, disk, files>>
          /\ IF rp_fs_cwd_set(to)
             THEN dirs' = rp_fs_closedir(opened, h) /\ cwd' = [cwd EXCEPT ![pid] = to] /\ Done("CHDIR", {})
             ELSE dirs' = opened /\ cwd' = cwd /\ Answer("CHDIR", "EIO", None) /\ wrote' = {}

\* The directory is opened to see that it is there, and closed again.
rp_fs_mb_exec_chdir(pid, args, s, i, fault) ==
  LET to == rp_fs_mb_resolve_arg_path(pid, s, i)
      h == First(FreeDirs)
      kept == fault # "close" /\ rp_fs_cwd_set(to)
  IN IF ~rp_fs_mb_private_range(args, 6) \/ to.path = Bad THEN Refuse("CHDIR", "EINVAL")
     ELSE IF fault = "open" \/ ~rp_fs_opendir_83(to) THEN Refuse("CHDIR", Failure(to.device))
     ELSE /\ dirs' = rp_fs_closedir(Opening(dirs, h, rp_fs_dir(to)), h)
          /\ cwd' = IF kept THEN [cwd EXCEPT ![pid] = to] ELSE cwd
          /\ Answer("CHDIR", IF kept THEN "OK" ELSE "EIO", None) /\ wrote' = {}
          /\ UNCHANGED <<mounted, disk, files>>

rp_fs_mb_exec_getcwd(pid, args, dst, len) ==
  LET n == 3 + strlen(cwd[pid].path)
  IN IF \/ ~rp_fs_mb_private_range(args, 8) \/ rp_fs_cwd_format(pid).comps = Bad
        \/ n + 1 > len \/ ~rp_fs_mb_private_range(dst, n + 1)
     THEN Refuse("GETCWD", "EINVAL")
     ELSE Done("GETCWD", {<<dst, n + 1>>, <<args + 4, 2>>}) /\ UNCHANGED <<disk, files, dirs, cwd>>

\* Where a transfer may end: when all is done, with an error between chunks,
\* on a full stick.
Stops(transfer) ==
  {n \in 0 .. Least(transfer, MaxSize) : n \in {transfer, MaxSize} \/ n % CHUNK_SIZE = 0}

\* Forgets to close the file when the buffer is out of range.
MutantBulk(op, pid, args, s, i, ptr, size, fault) ==
  LET to == rp_fs_mb_resolve_arg_path(pid, <<s[1], PATH_MAX - 1>>, i)
      mode == IF op = "LOAD" THEN "READ" ELSE "WRITE_TRUNC"
      asked == IF size = 0 THEN Mem ELSE size
      h == First(FreeFiles)
      f == rp_fs_open_mode_83(to.device, to.path, mode)
      opened == Opening(files, h, f)
      transfer == IF op = "LOAD" THEN Least(asked, f.size) ELSE asked
      Saved(n) == IF op = "LOAD" THEN disk ELSE With(to.device, to.path, n)
  IN IF ~rp_fs_mb_private_range(args, 8) \/ to.path = Bad THEN Refuse(op, "EINVAL")
     ELSE IF fault = "open" \/ FreeFiles = {} \/ ~f_open(to.device, to.path, mode)
          THEN Refuse(op, Failure(to.device))
     ELSE IF ~rp_fs_mb_valid_64k_range(ptr, transfer)
     THEN /\ files' = opened
          /\ disk' = Saved(0)
          /\ Answer(op, "EINVAL", None) /\ wrote' = {}
          /\ UNCHANGED <<mounted, dirs, cwd>>
     ELSE \E done \in Stops(transfer) :
          /\ files' = rp_fs_close(opened, h)
          /\ disk' = Saved(IF fault = "close" THEN 0 ELSE done)
          /\ Answer(op, IF done = transfer /\ fault # "close" THEN "OK" ELSE "EIO", None)
          /\ wrote' = IF op = "LOAD" /\ done > 0 THEN {<<ptr, done>>} ELSE {}
          /\ UNCHANGED <<mounted, dirs, cwd>>

\* The file is opened, transferred chunk by chunk and closed again, also when
\* the buffer is found out of range: a SAVE has emptied it by then.  (To begin
\* the access to the context cannot fail here, as it did not for the block.)
rp_fs_mb_exec_bulk(op, pid, args, s, i, ptr, size, fault) ==
  LET to == rp_fs_mb_resolve_arg_path(pid, <<s[1], PATH_MAX - 1>>, i)
      mode == IF op = "LOAD" THEN "READ" ELSE "WRITE_TRUNC"
      asked == IF size = 0 THEN Mem ELSE size
      h == First(FreeFiles)
      f == rp_fs_open_mode_83(to.device, to.path, mode)
      opened == Opening(files, h, f)
      transfer == IF op = "LOAD" THEN Least(asked, f.size) ELSE asked
      Saved(n) == IF op = "LOAD" THEN disk ELSE With(to.device, to.path, n)
  IN IF ~rp_fs_mb_private_range(args, 8) \/ to.path = Bad THEN Refuse(op, "EINVAL")
     ELSE IF fault = "open" \/ FreeFiles = {} \/ ~f_open(to.device, to.path, mode)
          THEN Refuse(op, Failure(to.device))
     ELSE IF ~rp_fs_mb_valid_64k_range(ptr, transfer)
     THEN /\ files' = rp_fs_close(opened, h)
          /\ disk' = Saved(0)
          /\ Answer(op, "EINVAL", None) /\ wrote' = {}
          /\ UNCHANGED <<mounted, dirs, cwd>>
     ELSE \E done \in Stops(transfer) :
          /\ files' = rp_fs_close(opened, h)
          /\ disk' = Saved(IF fault = "close" THEN 0 ELSE done)
          /\ Answer(op, IF done = transfer /\ fault # "close" THEN "OK" ELSE "EIO", None)
          /\ wrote' = IF op = "LOAD" /\ done > 0 THEN {<<ptr, done>>} ELSE {}
          /\ UNCHANGED <<mounted, dirs, cwd>>

IsOpen(h) == h \in Handles /\ files[h].in_use

rp_fs_mb_exec_read(args, h, dst, len, io) ==
  LET n == Least(len, CHUNK_SIZE)
      count == IF files[h].pos < files[h].size THEN Least(n, files[h].size - files[h].pos) ELSE 0
  IN IF ~rp_fs_mb_private_range(args, 6) \/ ~IsOpen(h) \/ dst = 0 THEN Refuse("READ", "EINVAL")
     ELSE IF len = 0 THEN Refuse("READ", "OK")
     ELSE IF ~rp_fs_mb_private_range(dst, n) THEN Refuse("READ", "EINVAL")
     ELSE IF ~io \/ "READ" \notin files[h].flags THEN Refuse("READ", "EIO")
     ELSE /\ files' = [files EXCEPT ![h].pos = @ + count]
          /\ Done("READ", IF count > 0 THEN {<<dst, count>>} ELSE {})
          /\ UNCHANGED <<disk, dirs, cwd>>

rp_fs_mb_exec_write(args, h, src, len, io) ==
  LET n == Least(len, CHUNK_SIZE)
      end == Least(files[h].pos + n, MaxSize)
  IN IF ~rp_fs_mb_private_range(args, 6) \/ ~IsOpen(h) \/ src = 0 THEN Refuse("WRITE", "EINVAL")
     ELSE IF len = 0 THEN Refuse("WRITE", "OK")
     ELSE IF ~rp_fs_mb_private_range(src, n) THEN Refuse("WRITE", "EINVAL")
     ELSE IF ~io \/ "WRITE" \notin files[h].flags THEN Refuse("WRITE", "EIO")
     ELSE /\ files' = [files EXCEPT ![h].pos = end,
                                    ![h].size = IF end > @ THEN end ELSE @]
          /\ Done("WRITE", {}) /\ UNCHANGED <<disk, dirs, cwd>>

\* A file that may be written grows to where it is sought.
rp_fs_mb_exec_seek(args, h, whence, offset, io) ==
  LET f == files[h]
      target == offset + (CASE whence = "SET" -> 0 [] whence = "CUR" -> f.pos [] OTHER -> f.size)
      to == Least(target, IF "WRITE" \in f.flags THEN MaxSize ELSE f.size)
  IN IF ~rp_fs_mb_private_range(args, 10) \/ ~IsOpen(h) \/ whence = "bad" THEN Refuse("SEEK", "EINVAL")
     ELSE IF target < 0 \/ target > MaxOffset THEN Refuse("SEEK", "EINVAL")
     ELSE IF ~io THEN Refuse("SEEK", "EIO")
     ELSE /\ files' = [files EXCEPT ![h].pos = to, ![h].size = IF to > @ THEN to ELSE @]
          /\ Done("SEEK", {<<args + 6, 4>>}) /\ UNCHANGED <<disk, dirs, cwd>>

rp_fs_mb_exec_tell(args, h) ==
  IF ~rp_fs_mb_private_range(args, 6) \/ ~IsOpen(h) THEN Refuse("TELL", "EINVAL")
  ELSE Done("TELL", {<<args + 2, 4>>}) /\ UNCHANGED <<disk, files, dirs, cwd>>

\* Reads the entry before it looks whether the buffer can take it.
MutantReaddir(args, h, dst, len, io) ==
  LET more == dirs[h].index < Cardinality(Children(dirs[h].device, dirs[h].path))
      refused == len < DIRENT_SIZE \/ ~rp_fs_mb_private_range(dst, DIRENT_SIZE)
  IN IF ~rp_fs_mb_private_range(args, 6) \/ h \notin Handles \/ ~dirs[h].in_use
     THEN Refuse("READDIR", "EINVAL")
     ELSE IF ~io THEN Refuse("READDIR", "EIO")
     ELSE /\ dirs' = [dirs EXCEPT ![h].index = IF more THEN @ + 1 ELSE @]
          /\ Answer("READDIR", IF refused /\ more THEN "EINVAL" ELSE "OK", None)
          /\ wrote' = IF more /\ ~refused THEN {<<dst, DIRENT_SIZE>>} ELSE {}
          /\ UNCHANGED <<mounted, disk, files, cwd>>

\* Entries that are no 8.3 names are passed over: Names has none of them.
rp_fs_mb_exec_readdir(args, h, dst, len, io) ==
  LET more == dirs[h].index < Cardinality(Children(dirs[h].device, dirs[h].path))
  IN IF \/ ~rp_fs_mb_private_range(args, 6) \/ h \notin Handles \/ ~dirs[h].in_use
        \/ len < DIRENT_SIZE \/ ~rp_fs_mb_private_range(dst, DIRENT_SIZE)
     THEN Refuse("READDIR", "EINVAL")
     ELSE IF ~io THEN Refuse("READDIR", "EIO")
     ELSE /\ dirs' = [dirs EXCEPT ![h].index = IF more THEN @ + 1 ELSE @]
          /\ Done("READDIR", IF more THEN {<<dst, DIRENT_SIZE>>} ELSE {})
          /\ UNCHANGED <<disk, files, cwd>>

\* Keeps the handle of a file that FatFs could not close.
MutantClose(h, io) ==
  IF ~IsOpen(h) THEN Refuse("CLOSE", "EINVAL")
  ELSE /\ files' = IF io THEN rp_fs_close(files, h) ELSE files
       /\ disk' = IF io THEN Synced(files[h]) ELSE disk
       /\ Answer("CLOSE", IF io THEN "OK" ELSE "EIO", h) /\ wrote' = {}
       /\ UNCHANGED <<mounted, dirs, cwd>>

\* A close that fails leaves the size as it was.
rp_fs_mb_exec_close(h, io) ==
  IF ~IsOpen(h) THEN Refuse("CLOSE", "EINVAL")
  ELSE /\ files' = rp_fs_close(files, h)
       /\ disk' = IF io THEN Synced(files[h]) ELSE disk
       /\ Answer("CLOSE", IF io THEN "OK" ELSE "EIO", h) /\ wrote' = {}
       /\ UNCHANGED <<mounted, dirs, cwd>>

rp_fs_mb_exec_closedir(h, io) ==
  IF h \notin Handles \/ ~dirs[h].in_use THEN Refuse("CLOSEDIR", "EINVAL")
  ELSE /\ dirs' = rp_fs_closedir(dirs, h)
       /\ Answer("CLOSEDIR", IF io THEN "OK" ELSE "EIO", h) /\ wrote' = {}
       /\ UNCHANGED <<mounted, disk, files, cwd>>

rp_fs_cwd_init_root(pid, d) ==
  IF pid \notin Pids \/ d \notin Devices THEN Refuse("CWD_INIT_ROOT", "EINVAL")
  ELSE /\ cwd' = [cwd EXCEPT ![pid] = Root(d)]
       /\ Done("CWD_INIT_ROOT", {}) /\ UNCHANGED <<disk, files, dirs>>

rp_fs_cwd_clone(child, parent) ==
  IF {child, parent} \subseteq Pids
  THEN /\ cwd' = [cwd EXCEPT ![child] = cwd[parent]]
       /\ Done("CWD_CLONE", {}) /\ UNCHANGED <<disk, files, dirs>>
  ELSE Refuse("CWD_CLONE", "EINVAL")

\* A reset of the machine; the open files are closed, if FatFs can.
rp_fs_mailbox_reset ==
  /\ disk' = LET after[n \in 0 .. MAX_HANDLES] ==
                   IF n = 0 THEN disk
                   ELSE LET f == files[n - 1]
                        IN IF f.in_use /\ "WRITE" \in f.flags /\ f.path \in DOMAIN after[n - 1][f.device]
                              /\ after[n - 1][f.device][f.path] # DIR
                           THEN [after[n - 1] EXCEPT ![f.device][f.path] = f.size]
                           ELSE after[n - 1]
             IN after[MAX_HANDLES]
  /\ files' = [h \in Handles |-> NoFile]
  /\ dirs' = [h \in Handles |-> NoDir]
  /\ cwd' = [p \in Pids |-> Root(0)]
  /\ Answer("reset", "OK", None) /\ wrote' = {}
  /\ UNCHANGED mounted

-----------------------------------------------------------------------------
\* Sticks.  rp_fs_close_all_for_device comes too late to write anything.

Plug(d) ==
  /\ d \notin mounted
  /\ mounted' = mounted \union {d}
  /\ disk' = [disk EXCEPT ![d] = FirstDisk]
  /\ UNCHANGED <<files, dirs, cwd, reply, wrote, owned>>

\* Closes the files only.
MutantPull(d) ==
  /\ d \in mounted
  /\ mounted' = mounted \ {d}
  /\ disk' = [disk EXCEPT ![d] = Empty]
  /\ files' = [h \in Handles |-> IF files[h].device = d THEN NoFile ELSE files[h]]
  /\ UNCHANGED <<dirs, cwd, reply, wrote, owned>>

Pull(d) ==
  /\ d \in mounted
  /\ mounted' = mounted \ {d}
  /\ disk' = [disk EXCEPT ![d] = Empty]
  /\ files' = [h \in Handles |-> IF files[h].device = d THEN NoFile ELSE files[h]]
  /\ dirs' = [h \in Handles |-> IF dirs[h].device = d THEN NoDir ELSE dirs[h]]
  /\ UNCHANGED <<cwd, reply, wrote, owned>>

-----------------------------------------------------------------------------
\* What operation asks for, by a process in its context; another number of a
\* process or a context is refused with EINVAL.
rp_fs_mailbox_handle_exec ==
  \E pid \in Pids, x \in Strings, i \in Inputs :
    LET args == x[1]
        s == <<x[2], x[3]>>
    IN \/ \E io \in BOOLEAN :
            \/ \E mode \in {"READ", "WRITE_TRUNC", "WRITE_EXISTING", "RW_EXISTING", "RW_CREATE"} :
                 rp_fs_mb_exec_open(pid, args, s, i, mode, io)
            \/ \E op \in {"DELETE", "MKDIR", "RMDIR"} :
                 rp_fs_mb_exec_single_path(op, pid, args, s, i, io)
            \/ \E j \in Inputs : rp_fs_mb_exec_rename(pid, args, s, i, j, io)
            \/ rp_fs_mb_exec_opendir(pid, args, s, i, io)
       \/ \E fault \in {"none", "open", "close"} :
            \/ rp_fs_mb_exec_chdir(pid, args, s, i, fault)
            \/ \E op \in {"LOAD", "SAVE"}, b \in Buffers :
                 rp_fs_mb_exec_bulk(op, pid, args, s, i, b[1], b[2], fault)

HandleExec ==
  \E args \in Args, h \in 0 .. MAX_HANDLES, io \in BOOLEAN :
     \/ \E b \in Buffers : \/ rp_fs_mb_exec_read(args, h, b[1], b[2], io)
                          \/ rp_fs_mb_exec_write(args, h, b[1], b[2], io)
                          \/ rp_fs_mb_exec_readdir(args, h, b[1], b[2], io)
     \/ \E whence \in {"SET", "CUR", "END", "bad"}, offset \in Offsets :
          rp_fs_mb_exec_seek(args, h, whence, offset, io)
     \/ rp_fs_mb_exec_tell(args, h)
     \/ rp_fs_mb_exec_close(h, io)
     \/ rp_fs_mb_exec_closedir(h, io)

CwdExec ==
  \/ \E pid \in Pids, args \in Args, b \in Buffers : rp_fs_mb_exec_getcwd(pid, args, b[1], b[2])
  \/ \E pid \in 0 .. MAX_PROCS, d \in 0 .. MAX_DEVICES : rp_fs_cwd_init_root(pid, d)
  \/ \E child, parent \in 0 .. MAX_PROCS : rp_fs_cwd_clone(child, parent)

Request ==
  /\ \/ rp_fs_mailbox_handle_exec
     \/ HandleExec
     \/ CwdExec
     \/ rp_fs_mailbox_reset
  /\ owned' = (owned \union Given(reply')) \ Taken(reply')

Next ==
  \/ Request
  \/ \E d \in Devices : Plug(d) \/ Pull(d)

Spec == Init /\ [][Next]_vars

-----------------------------------------------------------------------------
\* Every handle in use is one that the 6502 was answered with and can close:
\* none is left behind by a LOAD, a SAVE or a change of directory, wherever it
\* failed, nor by a close that failed.  There are MAX_HANDLES of each kind for
\* all processes.
NoOrphanHandle ==
  \A h \in Handles : /\ files[h].in_use => <<"file", h>> \in owned
                     /\ dirs[h].in_use => <<"dir", h>> \in owned

\* What GETCWD returns leads back: the text of a current directory fits its
\* buffer, and resolved, by any process, it is that directory.
CwdRoundTrips ==
  \A p, q \in Pids : /\ strlen(cwd[p].path) < CWD_MAX
                     /\ rp_fs_resolve_process_path(q, rp_fs_cwd_format(p)) = cwd[p]

\* A request keeps to what it was asked for.  A refusal with EINVAL comes
\* before anything is done, so that it can be sent again: no entry of a
\* directory is skipped, no position moved, no file touched (but a SAVE's, see
\* the README).  And what is written to 6502 memory is in the private area
\* below PRIVATE_LIMIT, or for a LOAD in the context, without a wrap.
KeepsToItsRequest ==
  [][/\ UNCHANGED mounted /\ reply'.err = "EINVAL" =>
          UNCHANGED <<files, dirs, cwd>> /\ (UNCHANGED disk \/ reply'.op = "SAVE")
     /\ \A w \in wrote' : IF reply'.op = "LOAD" THEN w[1] + w[2] <= Mem
                          ELSE w[1] > 0 /\ w[1] + w[2] <= PRIVATE_LIMIT]_vars
=============================================================================
