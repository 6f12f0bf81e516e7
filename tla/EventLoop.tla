------------------------------ MODULE EventLoop ------------------------------
(***************************************************************************)
(* event_loop::Loop's table of file events, the epoll interest list under  *)
(* it, and the connection::Connection methods that register callbacks.     *)
(*                                                                         *)
(* A registration is kept three times: in the poller (masks), in the       *)
(* FileEvent of the loop (file_events) and in the Connection (flags and    *)
(* callbacks).  The operators below change all three the way the code      *)
(* does.  They work on a pair [loop, conn], so that a handler which makes  *)
(* several of these calls is their composition.                            *)
(*                                                                         *)
(* The callbacks of a FileEvent hold a pointer to the Connection that      *)
(* registered them: here, the owner.  kBarrier is left out: only tests     *)
(* pass barrier = true.  Operators called Definition_Bug are the defects   *)
(* the properties are tried against.                                       *)
(***************************************************************************)
EXTENDS Integers, FiniteSets

CONSTANTS Fds,      \* descriptors a client connection can get
          NoOwner   \* a null callback

kReadable == "readable"
kWritable == "writable"
NoFd == -1

NoEvent == [mask |-> {}, read |-> NoOwner, write |-> NoOwner]

Events(owners) ==
    [mask : SUBSET {kReadable, kWritable},
     read : owners \cup {NoOwner}, write : owners \cup {NoOwner}]

(* file_events_[fd].get() != file_event after a callback: the event being  *)
(* dispatched was replaced or retired.                                     *)
EmptyLoop == [file_events |-> [fd \in Fds |-> NoEvent],
              masks |-> [fd \in Fds |-> {}], replaced |-> FALSE]

Merge(event, old) ==
    [mask  |-> event.mask \cup old.mask,
     read  |-> IF event.read = NoOwner THEN old.read ELSE event.read,
     write |-> IF event.write = NoOwner THEN old.write ELSE event.write]

-----------------------------------------------------------------------------
(* Loop and poller.                                                        *)

CreateFileEvent(loop, fd, event) ==
    [loop EXCEPT !.masks[fd] = @ \cup event.mask,
                 !.file_events[fd] = Merge(event, @),
                 !.replaced = TRUE]

Deletable(loop, fd, mask) ==
    /\ loop.file_events[fd].mask \cap mask # {}
    /\ loop.masks[fd] # {}

DeleteFileEvent(loop, fd, mask) ==
    LET remaining == loop.file_events[fd].mask \ mask
    IN  IF ~Deletable(loop, fd, mask) THEN loop
        ELSE [loop EXCEPT !.masks[fd] = @ \ mask,
                          !.file_events[fd] = IF remaining = {} THEN NoEvent
                                              ELSE [@ EXCEPT !.mask = remaining],
                          !.replaced = @ \/ remaining = {}]

(* epoll_ctl(EPOLL_CTL_ADD): the only registration the kernel can refuse   *)
(* (ENOMEM, ENOSPC); a descriptor already in the list is modified.         *)
CanBeRefused(loop, fd) == loop.masks[fd] = {}

-----------------------------------------------------------------------------
(* Connection: c is the owner of the connection conn.                      *)

SetReadCallback(s, c) ==
    [loop |-> CreateFileEvent(s.loop, s.conn.fd,
                [mask |-> {kReadable}, read |-> c, write |-> NoOwner]),
     conn |-> [s.conn EXCEPT !.read_callback = TRUE, !.flags = @ \cup {kReadable}]]

SetWriteCallback(s, c) ==
    [loop |-> CreateFileEvent(s.loop, s.conn.fd,
                [mask |-> {kWritable}, read |-> NoOwner, write |-> c]),
     conn |-> [s.conn EXCEPT !.write_callback = TRUE, !.flags = @ \cup {kWritable}]]

UnsetReadCallback(s) ==
    IF ~Deletable(s.loop, s.conn.fd, {kReadable}) THEN s
    ELSE [loop |-> DeleteFileEvent(s.loop, s.conn.fd, {kReadable}),
          conn |-> [s.conn EXCEPT !.read_callback = FALSE, !.flags = @ \ {kReadable}]]

UnsetWriteCallback(s) ==
    IF ~Deletable(s.loop, s.conn.fd, {kWritable}) THEN s
    ELSE [loop |-> DeleteFileEvent(s.loop, s.conn.fd, {kWritable}),
          conn |-> [s.conn EXCEPT !.write_callback = FALSE, !.flags = @ \ {kWritable}]]

Close_EventKept(s) ==
    [s EXCEPT !.conn = [@ EXCEPT !.read_callback = FALSE, !.write_callback = FALSE,
                                 !.flags = {}, !.fd = NoFd, !.state = "kClosed"]]

(* The destructor calls Close again: nothing is left for it to do.         *)
Close(s) ==
    IF s.conn.fd = NoFd THEN s
    ELSE [loop |-> DeleteFileEvent(s.loop, s.conn.fd, s.conn.flags),
          conn |-> [s.conn EXCEPT !.read_callback = FALSE, !.write_callback = FALSE,
                                  !.flags = {}, !.fd = NoFd, !.state = "kClosed"]]
=============================================================================
