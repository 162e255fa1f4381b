SPECIFICATION ImagesSpec
CONSTANTS
  Uploads = {a1, a2, a3}
  Exts = {png, jpg, webp}
  MaxSeconds = 1
INVARIANTS
  StorageMatchesRow
  CachedImageIsCurrent
CHECK_DEADLOCK FALSE
