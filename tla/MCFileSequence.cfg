CONSTANTS
    Files = {"first", "third", "fourth", "tenth", "cover", "second", "ogg", "fifth", "live1", "live2"}
    Dirs = {"cd", "d"}
    Subdirs <- MCSubdirs
    Stems = {"track", "cover", "part", "[live] "}
    Endings = {"mp3", "ogg", "jpg"}
    Name <- MCName
    Magic = {"[live] "}
    Lookalikes <- MCLookalikes
    Searches <- MCSearches
    Listings <- MCListings
    MaxChanges = 1
SPECIFICATION FSSpec
INVARIANTS
    FSTypeOK
    MissingAreReported
CHECK_DEADLOCK FALSE
