SPECIFICATION FairSpec
CONSTANTS
    Null = Null
    Panels = {p1, p2}
    Uploaders = {p1}
    Downloaders = {p2}
    Listers = {p2}
    Names = {"manifest.xma", "page.xma", "version.xma"}
    Contents <- AllContents
    JunkSizeMax = 2
    ListedSize = 9
    BaseIsCurrent = TRUE
    MaxOps = 4
INVARIANT TypeOK
INVARIANT UploadStored
INVARIANT DownloadIsFile
PROPERTY TransferEnds
PROPERTY ListingEnds
CHECK_DEADLOCK FALSE
