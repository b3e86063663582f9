--------------------------- MODULE MCSourceFetch ---------------------------
(* Two directories of one repository, each too large for one listing, of    *)
(* which one has small subdirectories; a url-list and a subscription file.         *)
EXTENDS SourceFetch

CONSTANTS raw1, raw2, list, sub, root1, sub1, sub2, root2, index, file, repo

OneSource(kind, root, maxFiles, maxDepth, urls, filters) ==
    [kind |-> kind, root |-> root, repo |-> repo, maxFiles |-> maxFiles,
     maxDepth |-> maxDepth, urls |-> urls, filters |-> filters]

PlanOf ==
    [s \in Sources |->
       CASE s = raw1 -> OneSource("raw", root1, 3, 2, 1, FALSE)
         [] s = raw2 -> OneSource("raw", root2, 2, 1, 1, TRUE)
         [] s = list -> OneSource("url-list", index, 2, 1, 1, FALSE)
         [] s = sub -> OneSource("subscription", file, 1, 1, 1, FALSE)]

OneNode(source, level, total, kids, shownFiles, shownKids) ==
    [source |-> source, level |-> level, files |-> total, kids |-> kids,
     shownFiles |-> shownFiles, shownKids |-> shownKids]

TreeOf ==
    [n \in Nodes |->
       CASE n = root1 -> OneNode(raw1, 0, 1, <<sub1, sub2>>, 1, 1)
         [] n = sub1 -> OneNode(raw1, 1, 2, <<>>, 1, 0)
         [] n = sub2 -> OneNode(raw1, 1, 2, <<>>, 2, 0)
         [] n = root2 -> OneNode(raw2, 0, 2, <<>>, 1, 0)
         [] n = index -> OneNode(list, 0, 2, <<>>, 2, 0)
         [] n = file -> OneNode(sub, 0, 1, <<>>, 1, 0)]
=============================================================================
