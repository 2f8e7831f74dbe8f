----------------------------- MODULE MCStorage -----------------------------
(* A server with a disk, an automounted share, and a place for USB disks. *)
EXTENDS Storage

Root == <<>>
Nas == <<"mnt", "nas">>
Usb == <<"mnt", "usb">>
Bind == <<"var">>

MCLength == [c \in {"mnt", "nas", "usb", "var", "*"} |-> IF c = "*" THEN 1 ELSE 3]

MCPoints == <<Root, Nas, Usb, Bind>>

On(dev, path, kind) == [dev |-> dev, path |-> path, kind |-> kind]

\* With the share and without; a directory of the disk bound to another path, a snap.
MCTables ==
  {<<On("sda", Root, "disk"), On("auto", Nas, "autofs"), On("server:/x", Nas, "other")>>,
   <<On("sda", Root, "disk"), On("sda", Bind, "disk"), On("loop0", Usb, "loop")>>}

MCMountable == {On("server:/x", Nas, "other"), On("sdb", Usb, "disk")}

\* The share by its path, and a pattern that matches it and the USB disk.
MCConfig == <<Nas, <<"mnt", "*">>>>
=============================================================================
